---- MODULE Spec2Model ----
(***************************************************************************)
(* Conversation search of chat-assistant-backend                           *)
(* (internal/repositories/elasticsearch.go): keyword occurrence counting,  *)
(* the exact-match filter, the relevance scorer and ranker, the matched    *)
(* message selector and the matched-field extractor.                       *)
(*                                                                         *)
(* A Go string is modelled as the sequence of its runes (code points);     *)
(* Bytes(s) is its UTF-8 encoding, which is what the Go code indexes.      *)
(***************************************************************************)
EXTENDS Integers, Sequences, FiniteSets, TLC

VARIABLES
    pc,                 \* position of the operation under way
    text,               \* text argument of the text functions
    query,              \* keyword / free-text term
    count,              \* result of countKeywordMatches
    relevance,          \* result of countRelevanceMatches
    contains,           \* result of containsKeyword
    messages,           \* doc.Messages handed to the matched-message selector
    matchedMessages,    \* the selector's result
    docs,               \* the slice sortByRelevance sorts in place
    esDocs,             \* documents parsed from the engine response
    highlights,         \* highlight key sets parsed from the engine response
    total,              \* total parsed from the engine response
    filteredDocs,       \* returned documents
    matchedMessagesMap, \* returned matched-messages map
    matchedFieldsMap,   \* returned matched-fields map
    resTotal,           \* returned total
    outcome,            \* how the engine answers the search request
    response,           \* the decoded engine response
    requests,           \* requests issued to the engine
    err,                \* returned error ("" is nil)
    nilReturns,         \* which of the returned slices and maps are nil
    scores,             \* calculateRelevanceScore of each document of docs
    request,            \* query parameters of GET /api/v1/search
    httpStatus,         \* status the search handler answered with (0: none yet)
    coreCalls,          \* calls of SearchWithMatchedMessages by the handler
    searchBody,         \* the engine request body built by buildSearchQuery
    userTable,          \* identities of the rows of the users table
    userFailure,        \* error of the database on the users query ("" is none)
    requestedID,             \* argument of GetUserByID
    userResult,         \* what GetUserByID returned
    conversationRows,   \* live rows of the conversations table, by identity
    indexDocuments,     \* documents of the search index, by identity
    indexReachable,     \* whether a request to the search engine succeeds
    lastCall,           \* the last service call and what it returned
    tagRows,            \* names of the live rows of the tags table, in order of insertion
    tagCalls,           \* the tag service call each request is in, with its locals
    searches,           \* each concurrent search: its arguments, position and result
    frames              \* the local variables of the concurrent searches, by frame

vars == <<pc, text, query, count, relevance, contains, messages, matchedMessages,
          docs, esDocs, highlights, total, filteredDocs, matchedMessagesMap,
          matchedFieldsMap, resTotal, outcome, response, requests, err,
          nilReturns, scores, request, httpStatus, coreCalls, searchBody,
          userTable, userFailure, requestedID, userResult,
          conversationRows, indexDocuments, indexReachable, lastCall,
          tagRows, tagCalls, searches, frames>>

textVars == <<text, count, relevance, contains>>
selectVars == <<messages, matchedMessages>>
sortVars == <<docs>>
searchVars == <<esDocs, highlights, total, filteredDocs, matchedMessagesMap,
                matchedFieldsMap, resTotal, outcome, response, requests, err,
                nilReturns>>
scoreVars == <<scores>>
handlerVars == <<request, httpStatus, coreCalls>>
queryVars == <<searchBody>>
userVars == <<userTable, userFailure, requestedID, userResult>>
baseVars == <<query, textVars, selectVars, sortVars, searchVars, scoreVars, handlerVars>>
conversationVars == <<conversationRows, indexDocuments, indexReachable, lastCall>>
tagVars == <<tagRows, tagCalls>>
concurrentVars == <<searches, frames>>
extraVars == <<queryVars, userVars, conversationVars, tagVars, concurrentVars>>
outsideQuery == <<baseVars, userVars, conversationVars, tagVars, concurrentVars>>
outsideUser == <<baseVars, queryVars, conversationVars, tagVars, concurrentVars>>
outsideConversation == <<baseVars, queryVars, userVars, tagVars, concurrentVars>>
outsideTag == <<baseVars, queryVars, userVars, conversationVars, concurrentVars>>
outsideConcurrent == <<baseVars, queryVars, userVars, conversationVars, tagVars>>

-----------------------------------------------------------------------------
(* Bounds of the model *)

MaxTextLen == 4
MaxKeywordLen == 2
MaxMessages == 5
MaxSortDocs == 4
MaxHits == 2
MaxTotal == 3
MaxScoreDocs == 2
IntBits == 16
MaxUsers == 4
MaxConversations == 2
MaxTags == 2
MaxRequests == 2

-----------------------------------------------------------------------------
(* Go strings *)

Min(S) == CHOOSE x \in S : \A y \in S : x <= y

\* unicode.ToLower on the runes of the model's alphabet (ASCII and CJK).
ToLowerRune(r) == IF r >= 65 /\ r <= 90 THEN r + 32 ELSE r

\* strings.ToLower
ToLower(s) == [i \in 1..Len(s) |-> ToLowerRune(s[i])]

\* UTF-8 encoding of one rune (code points below 0x10000).
EncodeRune(r) ==
    IF r < 128 THEN <<r>>
    ELSE IF r < 2048 THEN <<192 + (r \div 64), 128 + (r % 64)>>
    ELSE <<224 + (r \div 4096), 128 + ((r \div 64) % 64), 128 + (r % 64)>>

RECURSIVE Bytes(_)
\* The bytes of a Go string: what len(s) and s[i] see.
Bytes(s) == IF s = <<>> THEN <<>> ELSE EncodeRune(Head(s)) \o Bytes(Tail(s))

\* len([]rune(s))
RuneCount(s) == Len(s)

\* Does substr occur in s at 0-based byte offset p?
OccursAt(s, substr, p) ==
    /\ p >= 0
    /\ p + Len(substr) <= Len(s)
    /\ \A k \in 1..Len(substr) : s[p + k] = substr[k]

\* strings.Index on byte sequences: first 0-based offset, or -1.
Index(s, substr) ==
    LET ps == {p \in 0..(Len(s) - Len(substr)) : OccursAt(s, substr, p)}
    IN  IF ps = {} THEN -1 ELSE Min(ps)

\* strings.Contains
Contains(s, substr) == Index(s, substr) >= 0

\* s[start:] of a byte sequence
SliceFrom(s, start) == SubSeq(s, start + 1, Len(s))

-----------------------------------------------------------------------------
(* Keyword occurrence counting *)

\* A plausible slip: bytes >= 128 (multi-byte text) not treated as word characters.
isWordCharAsciiOnly(c) ==
    \/ (c >= 97 /\ c <= 122)
    \/ (c >= 65 /\ c <= 90)
    \/ (c >= 48 /\ c <= 57)
    \/ c = 95

isWordChar(c) ==
    \/ (c >= 97 /\ c <= 122)
    \/ (c >= 65 /\ c <= 90)
    \/ (c >= 48 /\ c <= 57)
    \/ c = 95
    \/ c >= 128

\* A plausible slip: only the byte after the occurrence is examined.
isWordBoundaryAfterOnly(lowerText, kwLen, actualPos) ==
    ~(actualPos + kwLen < Len(lowerText)
        /\ isWordChar(lowerText[actualPos + kwLen + 1]))

\* Is the occurrence of a keyword of kwLen bytes at 0-based offset actualPos
\* of lowerText delimited by word boundaries (lines 1363-1379)?
isWordBoundaryAt(lowerText, kwLen, actualPos) ==
    /\ ~(actualPos > 0 /\ isWordChar(lowerText[actualPos]))
    /\ ~(actualPos + kwLen < Len(lowerText)
            /\ isWordChar(lowerText[actualPos + kwLen + 1]))

RECURSIVE countKeywordLoop(_, _, _, _)
\* The for loop of countKeywordMatches (lines 1354-1386).
countKeywordLoop(lowerText, lowerKeyword, start, cnt) ==
    LET pos == Index(SliceFrom(lowerText, start), lowerKeyword)
        actualPos == start + pos
    IN  IF pos = -1 THEN cnt
        ELSE countKeywordLoop(lowerText, lowerKeyword,
                 actualPos + Len(lowerKeyword),
                 IF isWordBoundaryAt(lowerText, Len(lowerKeyword), actualPos)
                 THEN cnt + 1 ELSE cnt)

countKeywordMatches(t, keyword) ==
    IF t = <<>> \/ keyword = <<>> THEN 0
    ELSE countKeywordLoop(Bytes(ToLower(t)), Bytes(ToLower(keyword)), 0, 0)

RECURSIVE countRelevanceLoop(_, _, _, _)
\* The for loop of countRelevanceMatches (lines 1446-1453).
countRelevanceLoop(lowerText, lowerKeyword, start, cnt) ==
    LET pos == Index(SliceFrom(lowerText, start), lowerKeyword)
    IN  IF pos = -1 THEN cnt
        ELSE countRelevanceLoop(lowerText, lowerKeyword,
                 start + pos + Len(lowerKeyword), cnt + 1)

\* A plausible slip: the scorer delegating to the word-boundary counter.
countRelevanceMatchesStrict(t, keyword) == countKeywordMatches(t, keyword)

\* The keyword up to its first space.
FirstWord(keyword) ==
    IF \E i \in 1..Len(keyword) : keyword[i] = 32
    THEN SubSeq(keyword, 1, (CHOOSE i \in 1..Len(keyword) :
                                /\ keyword[i] = 32
                                /\ \A j \in 1..(i - 1) : keyword[j] # 32) - 1)
    ELSE keyword

\* A plausible slip: when the phrase is absent, the occurrences of its first
\* word are counted instead.
countRelevanceMatchesFirstWord(t, keyword) ==
    IF t = <<>> \/ keyword = <<>> THEN 0
    ELSE IF Contains(Bytes(ToLower(t)), Bytes(ToLower(keyword)))
         THEN countRelevanceLoop(Bytes(ToLower(t)), Bytes(ToLower(keyword)), 0, 0)
    ELSE IF FirstWord(keyword) # <<>>
              /\ Contains(Bytes(ToLower(t)), Bytes(ToLower(FirstWord(keyword))))
         THEN countRelevanceLoop(Bytes(ToLower(t)),
                                 Bytes(ToLower(FirstWord(keyword))), 0, 0)
    ELSE 0

countRelevanceMatches(t, keyword) ==
    IF t = <<>> \/ keyword = <<>> THEN 0
    ELSE LET lowerText == Bytes(ToLower(t))
             lowerKeyword == Bytes(ToLower(keyword))
         IN  IF Contains(lowerText, lowerKeyword)
             THEN countRelevanceLoop(lowerText, lowerKeyword, 0, 0)
             ELSE IF RuneCount(keyword) <= 3
                  THEN countKeywordMatches(t, keyword)
                  ELSE 0

containsKeyword(t, keyword) ==
    IF t = <<>> \/ keyword = <<>> THEN FALSE
    ELSE LET lowerText == Bytes(ToLower(t))
             lowerKeyword == Bytes(ToLower(keyword))
         IN  IF Contains(lowerText, lowerKeyword)
             THEN TRUE
             ELSE IF RuneCount(keyword) <= 3
                  THEN countKeywordMatches(t, keyword) > 0
                  ELSE FALSE

-----------------------------------------------------------------------------
(* Inputs of the text functions *)

Alphabet == {97, 65, 32, 33521}            \* 'a', 'A', ' ', U+82F1
KeywordAlphabet == {97, 32, 33521}

SeqsUpTo(S, n) == UNION {[1..k -> S] : k \in 0..n}

T_yingyu == <<33521, 35821>>
T_yingyu_xuexi == <<33521, 35821, 23398, 20064, 24456, 26377, 36259>>
T_ying_wu_yu == <<33521, 26080, 35821>>
T_cat == <<99, 97, 116>>
T_Cat == <<67, 97, 116>>
T_cats == <<99, 97, 116, 115>>
T_catalog == <<99, 97, 116, 97, 108, 111, 103>>
T_cat_catalog_cats ==
    <<99, 97, 116, 32, 99, 97, 116, 97, 108, 111, 103, 32, 99, 97, 116, 115>>
T_a_cat == <<97, 32, 99, 97, 116>>
T_cat_cat == <<99, 97, 116, 32, 99, 97, 116>>
T_x == <<120>>
T_a_a == <<97, 32, 97>>
T_a_a_a == <<97, 32, 97, 32, 97>>

NamedTexts == {T_yingyu, T_yingyu_xuexi, T_ying_wu_yu, T_cat, T_Cat, T_cats,
               T_catalog, T_cat_catalog_cats, T_a_cat, T_cat_cat, T_a_a_a}
NamedKeywords == {T_yingyu, T_cat, T_Cat, T_cats, T_catalog, T_a_a}

Texts == SeqsUpTo(Alphabet, MaxTextLen) \cup NamedTexts
Keywords == SeqsUpTo(KeywordAlphabet, MaxKeywordLen) \cup NamedKeywords

-----------------------------------------------------------------------------
(* Specification of the text functions: the inputs are drawn in the        *)
(* initial state and each function is applied by one action.               *)

\* No engine response (nothing was decoded).
NoResponse ==
    [hasHits |-> FALSE, totalForm |-> "missing", totalValue |-> 0,
     hitsIsArray |-> FALSE, entries |-> <<>>]

\* A request without any query parameter.
NoRequest ==
    [q |-> <<>>, userID |-> "absent", providerID |-> <<>>, tagID |-> "absent",
     startDate |-> <<>>, endDate |-> <<>>, page |-> <<>>, limit |-> <<>>,
     serviceFails |-> FALSE]

\* No request body (buildSearchQuery has not run).
NoBody ==
    [must |-> <<>>, should |-> <<>>, minimumShouldMatch |-> 0, from |-> 0, size |-> 0]

IdleSelect == messages = <<>> /\ matchedMessages = <<>>
IdleSort == docs = <<>>
IdleResults ==
    /\ esDocs = <<>> /\ highlights = <<>> /\ total = 0
    /\ filteredDocs = <<>> /\ matchedMessagesMap = <<>>
    /\ matchedFieldsMap = <<>> /\ resTotal = 0
    /\ requests = 0 /\ err = "" /\ nilReturns = {}
IdleSearch == IdleResults /\ outcome = "none" /\ response = NoResponse
IdleScore == scores = <<>>
IdleHandler == request = NoRequest /\ httpStatus = 0 /\ coreCalls = <<>>
IdleText == text = <<>> /\ count = 0 /\ relevance = 0 /\ contains = FALSE
IdleQuery == searchBody = NoBody
NoResult == [user |-> <<>>, err |-> ""]
IdleUser == userTable = {} /\ userFailure = "" /\ requestedID = 0 /\ userResult = NoResult
NoCall == [op |-> "", id |-> 0, err |-> "", reachable |-> TRUE]
IdleConversation ==
    /\ conversationRows = <<>> /\ indexDocuments = <<>>
    /\ indexReachable = TRUE /\ lastCall = NoCall
IdleTag == tagRows = <<>> /\ tagCalls = <<>>
IdleConcurrent == searches = <<>> /\ frames = <<>>
IdleExtra == IdleQuery /\ IdleUser /\ IdleConversation /\ IdleTag /\ IdleConcurrent
IdleBase ==
    /\ query = <<>>
    /\ IdleText /\ IdleSelect /\ IdleSort /\ IdleSearch /\ IdleScore /\ IdleHandler

InitText ==
    /\ pc = "text"
    /\ text \in Texts
    /\ query \in Keywords
    /\ count = 0 /\ relevance = 0 /\ contains = FALSE
    /\ IdleSelect /\ IdleSort /\ IdleSearch /\ IdleScore /\ IdleHandler /\ IdleExtra

CountKeywordMatches ==
    /\ pc = "text"
    /\ count' = countKeywordMatches(text, query)
    /\ pc' = "counted"
    /\ UNCHANGED <<text, query, relevance, contains, selectVars, sortVars, searchVars, scoreVars, handlerVars, extraVars>>

CountRelevanceMatches ==
    /\ pc = "counted"
    /\ relevance' = countRelevanceMatches(text, query)
    /\ pc' = "scored"
    /\ UNCHANGED <<text, query, count, contains, selectVars, sortVars, searchVars, scoreVars, handlerVars, extraVars>>

ContainsKeyword ==
    /\ pc = "scored"
    /\ contains' = containsKeyword(text, query)
    /\ pc' = "matched"
    /\ UNCHANGED <<text, query, count, relevance, selectVars, sortVars, searchVars, scoreVars, handlerVars, extraVars>>

NextText == CountKeywordMatches \/ CountRelevanceMatches \/ ContainsKeyword

SpecText == InitText /\ [][NextText]_vars

-----------------------------------------------------------------------------
(* Matched-message selector (SearchConversationsWithMatchedMessages,       *)
(* lines 712-754).  A message is a record [id, content, sourceContent];    *)
(* id 0 is uuid.Nil, what parseMessageDocument leaves when the identity    *)
(* does not parse.  Each &msgDoc points at its own copy of the element     *)
(* (per-iteration loop variables, Go 1.22 and later; the project requires  *)
(* Go 1.23.1).                                                             *)

maxMessages == 3

messageText(msgDoc) ==
    IF msgDoc.content = <<>> THEN msgDoc.sourceContent ELSE msgDoc.content

RECURSIVE selectMatching(_, _, _, _)
\* First pass (lines 716-730): the messages that contain the keyword.
selectMatching(msgs, keyword, i, acc) ==
    IF i > Len(msgs) \/ Len(acc) >= maxMessages THEN acc
    ELSE selectMatching(msgs, keyword, i + 1,
             IF countKeywordMatches(messageText(msgs[i]), keyword) > 0
             THEN Append(acc, msgs[i]) ELSE acc)

RECURSIVE backfill(_, _, _)
\* Second pass (lines 733-752): the first messages not already included,
\* where "already included" compares identities.
backfill(msgs, i, acc) ==
    IF i > Len(msgs) \/ Len(acc) >= maxMessages THEN acc
    ELSE LET alreadyIncluded == \E k \in 1..Len(acc) : acc[k].id = msgs[i].id
         IN  backfill(msgs, i + 1,
                 IF alreadyIncluded THEN acc ELSE Append(acc, msgs[i]))

\* A plausible slip: the first messages are taken without looking for the keyword.
selectFirstMessages(msgs, keyword) == backfill(msgs, 1, <<>>)

\* A plausible slip: no backfill after the first pass.
selectMatchingOnly(msgs, keyword) == selectMatching(msgs, keyword, 1, <<>>)

selectMatchedMessages(msgs, keyword) ==
    LET matched == selectMatching(msgs, keyword, 1, <<>>)
    IN  IF Len(matched) < maxMessages THEN backfill(msgs, 1, matched) ELSE matched

-----------------------------------------------------------------------------
(* Specification of the selector: one conversation's messages and a        *)
(* keyword are drawn in the initial state.                                 *)

MessageBodies ==
    { [content |-> T_Cat, sourceContent |-> <<>>],         \* contains "cat"
      [content |-> T_catalog, sourceContent |-> T_cat],    \* content lacks the word
      [content |-> <<>>, sourceContent |-> T_a_cat] }      \* falls back to the source

\* The message at position i carries its own identity i, or uuid.Nil.
MessageAt(i) ==
    { [id |-> d, content |-> b.content, sourceContent |-> b.sourceContent] :
        d \in {0, i}, b \in MessageBodies }

RECURSIVE MessageListsOfLen(_)
MessageListsOfLen(n) ==
    IF n = 0 THEN {<<>>}
    ELSE {Append(l, m) : l \in MessageListsOfLen(n - 1), m \in MessageAt(n)}

MessageLists == UNION {MessageListsOfLen(n) : n \in 0..MaxMessages}

InitSelect ==
    /\ pc = "select"
    /\ query \in {T_cat, <<>>}
    /\ messages \in MessageLists
    /\ matchedMessages = <<>>
    /\ IdleText /\ IdleSort /\ IdleSearch /\ IdleScore /\ IdleHandler /\ IdleExtra

SelectMatchedMessages ==
    /\ pc = "select"
    /\ matchedMessages' = selectMatchedMessages(messages, query)
    /\ pc' = "selected"
    /\ UNCHANGED <<query, messages, textVars, sortVars, searchVars, scoreVars, handlerVars, extraVars>>

NextSelect == SelectMatchedMessages

SpecSelect == InitSelect /\ [][NextSelect]_vars

-----------------------------------------------------------------------------
(* Exact-match filter, relevance scorer and ranker.  A conversation        *)
(* document is a record [id, title, sourceTitle, messages, tags]; a tag is *)
(* a record [name].                                                        *)

docTitle(doc) == IF doc.title = <<>> THEN doc.sourceTitle ELSE doc.title

hasExactMatch(doc, keyword) ==
    \/ containsKeyword(docTitle(doc), keyword)
    \/ \E i \in 1..Len(doc.messages) :
           containsKeyword(messageText(doc.messages[i]), keyword)
    \/ \E i \in 1..Len(doc.tags) : containsKeyword(doc.tags[i].name, keyword)

RECURSIVE SumOver(_, _, _)
\* Sum of f[i] for i in from..to.
SumOver(f, from, to) == IF from > to THEN 0 ELSE f[from] + SumOver(f, from + 1, to)

titleWeight == 10
messageWeight == 5
tagWeight == 8

\* A plausible slip: the title is read without the fall-back to the source title.
calculateRelevanceScoreNoFallback(doc, keyword) ==
    LET titleMatches == countRelevanceMatches(doc.title, keyword)
        messageMatches ==
            SumOver([i \in 1..Len(doc.messages) |->
                        countRelevanceMatches(messageText(doc.messages[i]), keyword)],
                    1, Len(doc.messages))
        tagMatches ==
            SumOver([i \in 1..Len(doc.tags) |->
                        countRelevanceMatches(doc.tags[i].name, keyword)],
                    1, Len(doc.tags))
    IN  titleMatches * titleWeight + messageMatches * messageWeight
            + tagMatches * tagWeight

calculateRelevanceScore(doc, keyword) ==
    LET titleMatches == countRelevanceMatches(docTitle(doc), keyword)
        messageMatches ==
            SumOver([i \in 1..Len(doc.messages) |->
                        countRelevanceMatches(messageText(doc.messages[i]), keyword)],
                    1, Len(doc.messages))
        tagMatches ==
            SumOver([i \in 1..Len(doc.tags) |->
                        countRelevanceMatches(doc.tags[i].name, keyword)],
                    1, Len(doc.tags))
    IN  titleMatches * titleWeight + messageMatches * messageWeight
            + tagMatches * tagWeight

\* docs[j], docs[j+1] = docs[j+1], docs[j] with 0-based j
swapAdjacent(ds, j) == [ds EXCEPT ![j + 1] = ds[j + 2], ![j + 2] = ds[j + 1]]

RECURSIVE bubbleInner(_, _, _, _, _)
\* The inner loop of sortByRelevance (lines 1526-1534); strict swaps when
\* score1 < score2, otherwise when score1 <= score2.
bubbleInner(ds, keyword, i, j, strict) ==
    IF j >= Len(ds) - i - 1 THEN ds
    ELSE LET score1 == calculateRelevanceScore(ds[j + 1], keyword)
             score2 == calculateRelevanceScore(ds[j + 2], keyword)
             swap == IF strict THEN score1 < score2 ELSE score1 <= score2
         IN  bubbleInner(IF swap THEN swapAdjacent(ds, j) ELSE ds,
                         keyword, i, j + 1, strict)

RECURSIVE bubbleOuter(_, _, _, _)
\* The outer loop of sortByRelevance (lines 1525-1535).
bubbleOuter(ds, keyword, i, strict) ==
    IF i >= Len(ds) - 1 THEN ds
    ELSE bubbleOuter(bubbleInner(ds, keyword, i, 0, strict), keyword, i + 1, strict)

\* A plausible slip: exchanging on score1 <= score2, which reorders ties.
sortByRelevanceSwappingTies(ds, keyword) == bubbleOuter(ds, keyword, 0, FALSE)

\* A plausible slip: the ranking step left out.
sortByRelevanceKeepingOrder(ds, keyword) == ds

sortByRelevance(ds, keyword) == bubbleOuter(ds, keyword, 0, TRUE)

-----------------------------------------------------------------------------
(* Specification of the ranker: the documents to rank and the keyword are  *)
(* drawn in the initial state; esDocs keeps the order before ranking.      *)

Msg(d, c, sc) == [id |-> d, content |-> c, sourceContent |-> sc]
Tag(n) == [name |-> n]

DocBodies ==
    { \* "cat" in the title
      [title |-> T_Cat, sourceTitle |-> <<>>, messages |-> <<>>, tags |-> <<>>],
      \* empty title, the source title holds "cat" inside a word; a message
      \* that falls back to its source content
      [title |-> <<>>, sourceTitle |-> T_catalog,
       messages |-> <<Msg(1, <<>>, T_a_cat)>>, tags |-> <<>>],
      \* two occurrences in one message; a second message whose own content
      \* hides its source content
      [title |-> T_x, sourceTitle |-> <<>>,
       messages |-> <<Msg(1, T_cat_cat, <<>>), Msg(2, T_x, T_cat)>>, tags |-> <<>>],
      \* "cat" only as a tag name
      [title |-> T_x, sourceTitle |-> <<>>, messages |-> <<>>, tags |-> <<Tag(T_cat)>>],
      \* "cat" only in fields that are not read
      [title |-> T_x, sourceTitle |-> T_cat,
       messages |-> <<Msg(1, T_x, T_cat)>>, tags |-> <<>>],
      \* "cat" only inside "catalog"
      [title |-> T_catalog, sourceTitle |-> <<>>, messages |-> <<>>, tags |-> <<>>] }

\* The document at position i of the engine response has identity i.
DocAt(i) ==
    { [id |-> i, title |-> b.title, sourceTitle |-> b.sourceTitle,
       messages |-> b.messages, tags |-> b.tags] : b \in DocBodies }

RECURSIVE DocListsOfLen(_)
DocListsOfLen(n) ==
    IF n = 0 THEN {<<>>}
    ELSE {Append(l, d) : l \in DocListsOfLen(n - 1), d \in DocAt(n)}

Queries == {T_cat, T_catalog, <<>>}

InitSort ==
    /\ pc = "sort"
    /\ query \in Queries
    /\ esDocs \in UNION {DocListsOfLen(n) : n \in 0..MaxSortDocs}
    /\ docs = esDocs
    /\ highlights = <<>> /\ total = 0
    /\ filteredDocs = <<>> /\ matchedMessagesMap = <<>>
    /\ matchedFieldsMap = <<>> /\ resTotal = 0
    /\ requests = 0 /\ err = "" /\ nilReturns = {}
    /\ outcome = "none" /\ response = NoResponse
    /\ IdleText /\ IdleSelect /\ IdleScore /\ IdleHandler /\ IdleExtra

SortByRelevance ==
    /\ pc = "sort"
    /\ docs' = sortByRelevance(docs, query)
    /\ pc' = "sorted"
    /\ UNCHANGED <<query, textVars, selectVars, searchVars, scoreVars, handlerVars, extraVars>>

NextSort == SortByRelevance

SpecSort == InitSort /\ [][NextSort]_vars

-----------------------------------------------------------------------------
(* Specification of the scorer: each of the documents drawn in the initial *)
(* state is scored against the keyword.                                    *)

\* Documents that differ in one field only: the phrase "a cat", or only
\* words of it, in the title, in a message or in a tag name.
PhraseBodies ==
    { [title |-> t, sourceTitle |-> T_cat, messages |-> <<>>, tags |-> <<>>] :
          t \in {T_a_cat, T_a_a, T_cat} }
    \cup { [title |-> T_x, sourceTitle |-> <<>>,
            messages |-> <<Msg(1, T_cat, <<>>), Msg(2, c, T_a_cat)>>, tags |-> <<>>] :
              c \in {T_a_cat, T_a_a} }
    \cup { [title |-> T_x, sourceTitle |-> <<>>, messages |-> <<>>,
            tags |-> <<Tag(n)>>] : n \in {T_a_cat, T_a_a} }

ScoreDocAt(i) ==
    { [id |-> i, title |-> b.title, sourceTitle |-> b.sourceTitle,
       messages |-> b.messages, tags |-> b.tags] : b \in DocBodies \cup PhraseBodies }

RECURSIVE ScoreDocListsOfLen(_)
ScoreDocListsOfLen(n) ==
    IF n = 0 THEN {<<>>}
    ELSE {Append(l, d) : l \in ScoreDocListsOfLen(n - 1), d \in ScoreDocAt(n)}

ScoreQueries == Queries \cup {T_a_cat, T_Cat}

InitScore ==
    /\ pc = "score"
    /\ query \in ScoreQueries
    /\ docs \in UNION {ScoreDocListsOfLen(n) : n \in 0..MaxScoreDocs}
    /\ IdleText /\ IdleSelect /\ IdleSearch /\ IdleScore /\ IdleHandler /\ IdleExtra

CalculateRelevanceScore ==
    /\ pc = "score"
    /\ scores' = [i \in 1..Len(docs) |-> calculateRelevanceScore(docs[i], query)]
    /\ pc' = "scored"
    /\ UNCHANGED <<query, docs, textVars, selectVars, searchVars, handlerVars, extraVars>>

NextScore == CalculateRelevanceScore

SpecScore == InitScore /\ [][NextScore]_vars

-----------------------------------------------------------------------------
(* SearchConversationsWithMatchedMessages (lines 659-762).  The parsed     *)
(* engine response is (esDocs, highlights, total); a highlight map is      *)
(* modelled by the set of its keys, the only thing the code reads.         *)

CanonicalFields ==
    <<"title", "source_title", "messages.content", "messages.source_content",
      "tags.name">>

Range(f) == {f[i] : i \in DOMAIN f}

Max(S) == CHOOSE x \in S : \A y \in S : x >= y

\* A plausible slip: the loop over the hits starting at the second hit.
filteredIndicesSkippingFirst(ds, keyword) ==
    SelectSeq([i \in 1..Len(ds) |-> i],
              LAMBDA i : i > 1 /\ hasExactMatch(ds[i], keyword))

\* Step 2 (lines 667-676): indices of the hits that pass hasExactMatch.
filteredIndices(ds, keyword) ==
    SelectSeq([i \in 1..Len(ds) |-> i], LAMBDA i : hasExactMatch(ds[i], keyword))

\* Lines 687-704: the canonical names whose key the highlight map holds.
extractMatchedFields(highlight) ==
    SelectSeq(CanonicalFields, LAMBDA f : f \in highlight)

\* Lines 707-709
hasMessageHighlight(highlight) ==
    "messages.content" \in highlight \/ "messages.source_content" \in highlight

\* Step 4 (lines 682-759), the matched-fields map: the loop writes
\* matchedFieldsMap[doc.ID] from filteredHighlights[i] for i = 0, 1, ...;
\* a later write to the same identity replaces an earlier one.
buildMatchedFieldsMap(sortedDocs, filteredHighlights) ==
    [d \in {sortedDocs[i].id : i \in 1..Len(sortedDocs)} |->
        extractMatchedFields(
            filteredHighlights[Max({i \in 1..Len(sortedDocs) : sortedDocs[i].id = d})])]

\* Step 4, the matched-messages map: written only at the positions i whose
\* filteredHighlights[i] holds a message-field key.
buildMatchedMessagesMap(sortedDocs, filteredHighlights, keyword) ==
    LET written == {i \in 1..Len(sortedDocs) : hasMessageHighlight(filteredHighlights[i])}
    IN  [d \in {sortedDocs[i].id : i \in written} |->
            selectMatchedMessages(
                sortedDocs[Max({i \in written : sortedDocs[i].id = d})].messages,
                keyword)]

-----------------------------------------------------------------------------
(* The engine call and the response parser.  The decoded response is a     *)
(* record: hasHits (response["hits"] is an object), totalForm / totalValue *)
(* (hits["total"]: missing, a number, an object with a numeric value, an   *)
(* object without one, or a string), hitsIsArray (hits["hits"] is an       *)
(* array) and the entries of that array.                                   *)

parseMessageDocument(source) ==
    [id |-> source.id, content |-> source.content,
     sourceContent |-> source.sourceContent]

parseTagDocument(source) == [name |-> source.name]

parseDocument(source) ==
    [id |-> source.id, title |-> source.title, sourceTitle |-> source.sourceTitle,
     messages |-> [i \in 1..Len(source.messages) |->
                      parseMessageDocument(source.messages[i])],
     tags |-> [i \in 1..Len(source.tags) |-> parseTagDocument(source.tags[i])]]

\* A plausible slip: only the bare number is read.
parseTotalNumberOnly(resp) ==
    IF resp.totalForm = "number" THEN resp.totalValue ELSE 0

\* Lines 1265-1272: the total in either of the two accepted forms, else 0.
parseTotal(resp) ==
    IF resp.totalForm \in {"object", "number"} THEN resp.totalValue ELSE 0

\* Lines 1283-1310: the entries that are hits, in order.
parsedEntries(resp) == SelectSeq(resp.entries, LAMBDA e : e.kind = "hit")

\* Lines 1301-1306
parseHighlight(entry) == IF entry.highlightForm = "map" THEN entry.highlight ELSE {}

ParseError(msg) == [docs |-> <<>>, highlights |-> <<>>, total |-> 0, err |-> msg]

\* A plausible slip: the total counts the entries that were parsed.
parseSearchResponseCountingParsed(resp) ==
    IF ~resp.hasHits THEN ParseError("invalid search response format")
    ELSE IF resp.totalForm = "missing"
         THEN ParseError("missing total in search response")
    ELSE IF ~resp.hitsIsArray
         THEN ParseError("invalid hits format in search response")
    ELSE LET hits == parsedEntries(resp)
         IN  [docs |-> [i \in 1..Len(hits) |-> parseDocument(hits[i].source)],
              highlights |-> [i \in 1..Len(hits) |-> parseHighlight(hits[i])],
              total |-> Len(hits),
              err |-> ""]

parseSearchResponseWithHighlights(resp) ==
    IF ~resp.hasHits THEN ParseError("invalid search response format")
    ELSE IF resp.totalForm = "missing"
         THEN ParseError("missing total in search response")
    ELSE IF ~resp.hitsIsArray
         THEN ParseError("invalid hits format in search response")
    ELSE LET hits == parsedEntries(resp)
         IN  [docs |-> [i \in 1..Len(hits) |-> parseDocument(hits[i].source)],
              highlights |-> [i \in 1..Len(hits) |-> parseHighlight(hits[i])],
              total |-> parseTotal(resp),
              err |-> ""]

\* The result of one engine call, with the number of requests it took.
WithCalls(r, n) ==
    [docs |-> r.docs, highlights |-> r.highlights, total |-> r.total,
     err |-> r.err, calls |-> n]

\* A plausible slip: a failed request is issued once more before giving up.
searchRetryingOnce(engine, resp) ==
    IF engine = "transport" THEN WithCalls(ParseError("failed to execute search"), 2)
    ELSE IF engine = "status"
         THEN WithCalls(ParseError("search request failed with status"), 2)
    ELSE IF engine = "undecodable"
         THEN WithCalls(ParseError("failed to decode search response"), 2)
    ELSE WithCalls(parseSearchResponseWithHighlights(resp), 1)

\* Lines 1062-1097: one req.Do, then the status, the decoding and the parse.
searchConversationDocumentsWithHighlights(engine, resp) ==
    IF engine = "transport" THEN WithCalls(ParseError("failed to execute search"), 1)
    ELSE IF engine = "status"
         THEN WithCalls(ParseError("search request failed with status"), 1)
    ELSE IF engine = "undecodable"
         THEN WithCalls(ParseError("failed to decode search response"), 1)
    ELSE WithCalls(parseSearchResponseWithHighlights(resp), 1)

-----------------------------------------------------------------------------
(* Specification of the search: the query and the parsed engine response   *)
(* are drawn in the initial state.                                         *)

HighlightSets ==
    { {},
      {"title"},
      {"messages.content", "tags.name"},
      {"source_title", "messages.source_content"} }

\* hits.hits[i] of the response: a hit whose _source is the document.
Hit(doc, highlightForm, highlight) ==
    [kind |-> "hit", source |-> doc, highlightForm |-> highlightForm,
     highlight |-> highlight]

NoSource == [id |-> 0, title |-> <<>>, sourceTitle |-> <<>>, messages |-> <<>>,
             tags |-> <<>>]

\* An entry that is not an object, or an object without an object _source.
BadEntry(kind) ==
    [kind |-> kind, source |-> NoSource, highlightForm |-> "absent", highlight |-> {}]

\* A response of the shape the engine documents, hits.total a bare number.
WellFormedResponse(ds, hs, n) ==
    [hasHits |-> TRUE, totalForm |-> "number", totalValue |-> n, hitsIsArray |-> TRUE,
     entries |-> [i \in 1..Len(ds) |-> Hit(ds[i], "map", hs[i])]]

TotalForms == {"missing", "number", "object", "object_no_value", "string"}

\* Entries of a response at position i: entries that are skipped, and hits
\* with the highlight absent, not an object, or an object.
EntryAt(i) ==
    { BadEntry("not_object"), BadEntry("no_source") }
    \cup { Hit([id |-> i, title |-> T_Cat, sourceTitle |-> <<>>, messages |-> <<>>,
                 tags |-> <<>>], "absent", {}),
           Hit([id |-> i, title |-> T_catalog, sourceTitle |-> <<>>, messages |-> <<>>,
                 tags |-> <<>>], "not_map", {}),
           Hit([id |-> i, title |-> T_x, sourceTitle |-> <<>>, messages |-> <<>>,
                 tags |-> <<>>], "map", {"title"}) }

RECURSIVE EntryListsOfLen(_)
EntryListsOfLen(n) ==
    IF n = 0 THEN {<<>>}
    ELSE {Append(l, e) : l \in EntryListsOfLen(n - 1), e \in EntryAt(n)}

T_budget == <<98, 117, 100, 103, 101, 116>>
T_Budget_Planning_2024 == <<66, 117, 100, 103, 101, 116, 32, 80, 108, 97, 110, 110, 105, 110, 103, 32, 50, 48, 50, 52>>
T_the_annual_budgets_were == <<116, 104, 101, 32, 97, 110, 110, 117, 97, 108, 32, 98, 117, 100, 103, 101, 116, 115, 32, 119, 101, 114, 101>>

BudgetTitleDoc(i) ==
    [id |-> i, title |-> T_Budget_Planning_2024, sourceTitle |-> <<>>,
     messages |-> <<>>, tags |-> <<>>]
BudgetsMessageDoc(i) ==
    [id |-> i, title |-> T_x, sourceTitle |-> <<>>,
     messages |-> <<Msg(1, T_the_annual_budgets_were, <<>>)>>, tags |-> <<>>]

EngineFailures == {"transport", "status", "undecodable"}

\* Documents and highlights of any shape, in a well-formed response.
GeneralCase ==
    /\ outcome = "ok"
    /\ query \in Queries
    /\ \E ds \in UNION {DocListsOfLen(n) : n \in 0..MaxHits} :
         \E hs \in [1..Len(ds) -> HighlightSets] :
           \E n \in Len(ds)..MaxTotal :
             response = WellFormedResponse(ds, hs, n)

\* Responses of any shape.
ShapeCase ==
    /\ outcome = "ok"
    /\ query = T_cat
    /\ response \in [hasHits : BOOLEAN, totalForm : TotalForms,
                     totalValue : 0..MaxTotal, hitsIsArray : BOOLEAN,
                     entries : UNION {EntryListsOfLen(n) : n \in 0..MaxHits}]

\* The two conversations of the "budget" scenario, in either order.
BudgetCase ==
    /\ outcome = "ok"
    /\ query = T_budget
    /\ \E ds \in { <<BudgetTitleDoc(1), BudgetsMessageDoc(2)>>,
                   <<BudgetsMessageDoc(1), BudgetTitleDoc(2)>> } :
         \E hs \in [1..2 -> HighlightSets] :
           response = WellFormedResponse(ds, hs, 2)

\* The engine call fails.
FailureCase ==
    /\ outcome \in EngineFailures
    /\ query \in Queries
    /\ response = NoResponse

Init ==
    /\ pc = "search"
    /\ (GeneralCase \/ ShapeCase \/ BudgetCase \/ FailureCase)
    /\ docs = <<>>
    /\ IdleResults
    /\ IdleText /\ IdleSelect /\ IdleScore /\ IdleHandler /\ IdleExtra

\* The whole of SearchConversationsWithMatchedMessages: the engine call,
\* then filter, rank, annotate.
SearchConversationsWithMatchedMessages ==
    /\ pc = "search"
    /\ LET r == searchConversationDocumentsWithHighlights(outcome, response)
           kept == filteredIndices(r.docs, query)
           filtered == [k \in 1..Len(kept) |-> r.docs[kept[k]]]
           filteredHighlights == [k \in 1..Len(kept) |-> r.highlights[kept[k]]]
           sorted == sortByRelevance(filtered, query)
       IN  /\ requests' = requests + r.calls
           /\ esDocs' = r.docs
           /\ highlights' = r.highlights
           /\ total' = r.total
           /\ IF r.err # ""
              THEN /\ err' = r.err
                   /\ filteredDocs' = <<>>
                   /\ matchedMessagesMap' = <<>>
                   /\ matchedFieldsMap' = <<>>
                   /\ nilReturns' = {"docs", "matchedMessages", "matchedFields"}
                   /\ resTotal' = 0
                   /\ pc' = "failed"
              ELSE /\ err' = ""
                   /\ filteredDocs' = sorted
                   /\ matchedMessagesMap' =
                          buildMatchedMessagesMap(sorted, filteredHighlights, query)
                   /\ matchedFieldsMap' =
                          buildMatchedFieldsMap(sorted, filteredHighlights)
                   /\ nilReturns' = {}
                   /\ resTotal' = total'
                   /\ pc' = "returned"
    /\ UNCHANGED <<query, outcome, response, docs, textVars, selectVars, scoreVars,
                   handlerVars, extraVars>>

Next == SearchConversationsWithMatchedMessages

Spec == Init /\ [][Next]_vars

-----------------------------------------------------------------------------
(* The search handler (src/internal/handlers/search.go, lines 45-134).  A  *)
(* request is the values of its query parameters: an identity is "absent", *)
(* "valid" or "malformed" (what uuid.Parse decides); the other parameters  *)
(* are the parameter strings themselves.                                   *)
(* serviceFails tells whether the search service returns an error.         *)
(* coreCalls lists the calls of SearchWithMatchedMessages.                 *)

IsDigit(c) == c \in 48..57

RECURSIVE DigitsValue(_)
DigitsValue(s) ==
    IF s = <<>> THEN 0
    ELSE 10 * DigitsValue(SubSeq(s, 1, Len(s) - 1)) + (s[Len(s)] - 48)

\* Go's int in two's complement.  It is 64 bits wide on the platforms the
\* service is built for; the model keeps the wrap-around at IntBits bits.
MaxInt == 2 ^ (IntBits - 1) - 1
MinInt == 0 - 2 ^ (IntBits - 1)
WrapInt(x) == ((x - MinInt) % (2 ^ IntBits)) + MinInt

\* strconv.Atoi: an optional sign followed by at least one decimal digit;
\* a value that does not fit an int is a range error.
Atoi(s) ==
    LET signed == s # <<>> /\ s[1] \in {43, 45}
        digits == IF signed THEN Tail(s) ELSE s
        value == IF signed /\ s[1] = 45 THEN 0 - DigitsValue(digits)
                 ELSE DigitsValue(digits)
    IN  IF digits = <<>> \/ \E i \in 1..Len(digits) : ~IsDigit(digits[i])
        THEN [ok |-> FALSE, value |-> 0]
        ELSE IF value > MaxInt \/ value < MinInt
        THEN [ok |-> FALSE, value |-> 0]
        ELSE [ok |-> TRUE, value |-> value]

IsLeap(y) == (y % 4 = 0 /\ y % 100 # 0) \/ y % 400 = 0

DaysInMonth(y, m) ==
    IF m = 2 THEN (IF IsLeap(y) THEN 29 ELSE 28)
    ELSE IF m \in {4, 6, 9, 11} THEN 30 ELSE 31

LeapDaysBefore(y) == ((y - 1) \div 4) - ((y - 1) \div 100) + ((y - 1) \div 400)

\* Days from 1970-01-01 to the first day of year y, of month m of year y.
DaysBeforeYear(y) == 365 * (y - 1970) + LeapDaysBefore(y) - LeapDaysBefore(1970)
DaysBeforeMonth(y, m) == SumOver([k \in 1..12 |-> DaysInMonth(y, k)], 1, m - 1)

\* The instant of a civil date and time in UTC, in seconds from 1970-01-01T00:00:00Z.
Unix(y, m, d, hh, mm, ss) ==
    (DaysBeforeYear(y) + DaysBeforeMonth(y, m) + (d - 1)) * 86400
        + hh * 3600 + mm * 60 + ss

\* time.Parse("2006-01-02", s): four digits, '-', two digits, '-', two digits,
\* a month in 1..12 and a day of that month; the instant is midnight UTC.
ParseDate(s) ==
    IF Len(s) # 10 \/ s[5] # 45 \/ s[8] # 45
          \/ \E i \in {1, 2, 3, 4, 6, 7, 9, 10} : ~IsDigit(s[i])
    THEN [ok |-> FALSE, unix |-> 0]
    ELSE LET y == DigitsValue(SubSeq(s, 1, 4))
             m == DigitsValue(SubSeq(s, 6, 7))
             d == DigitsValue(SubSeq(s, 9, 10))
         IN  IF m \notin 1..12 \/ d < 1 \/ d > DaysInMonth(y, m)
             THEN [ok |-> FALSE, unix |-> 0]
             ELSE [ok |-> TRUE, unix |-> Unix(y, m, d, 0, 0, 0)]

\* A plausible slip: the end date is handed on as parsed, midnight of the day.
endOfDayNotNormalized(parsed) == parsed

\* Line 91: parsed.Add(23*time.Hour + 59*time.Minute + 59*time.Second)
endOfDay(parsed) == parsed + 23 * 3600 + 59 * 60 + 59

\* Lines 100, 103-107
parsePage(pageStr) ==
    IF pageStr # <<>> /\ Atoi(pageStr).ok /\ Atoi(pageStr).value > 0
    THEN Atoi(pageStr).value ELSE 1

\* A plausible slip: the upper limit of the page size is not tested.
parseLimitUnbounded(limitStr) ==
    IF limitStr # <<>> /\ Atoi(limitStr).ok /\ Atoi(limitStr).value > 0
    THEN Atoi(limitStr).value ELSE 10

\* Lines 101, 109-113
parseLimit(limitStr) ==
    IF limitStr # <<>> /\ Atoi(limitStr).ok
           /\ Atoi(limitStr).value > 0 /\ Atoi(limitStr).value <= 100
    THEN Atoi(limitStr).value ELSE 10

BadRequest == [status |-> 400, calls |-> <<>>]

\* Lines 45-134: the status the handler answers with and the calls of the
\* search service it made.  A nil pointer argument is "absent" or <<>>; a
\* time is <<t>>, t the instant in seconds from 1970-01-01T00:00:00Z.
searchHandler(req) ==
    IF req.userID = "malformed" THEN BadRequest
    ELSE IF req.tagID = "malformed" THEN BadRequest
    ELSE IF req.startDate # <<>> /\ ~ParseDate(req.startDate).ok THEN BadRequest
    ELSE IF req.endDate # <<>> /\ ~ParseDate(req.endDate).ok THEN BadRequest
    ELSE [status |-> IF req.serviceFails THEN 500 ELSE 200,
          calls |-> << [query |-> req.q, userID |-> req.userID,
                        providerID |-> req.providerID, tagID |-> req.tagID,
                        startDate |-> IF req.startDate = <<>> THEN <<>>
                                      ELSE <<ParseDate(req.startDate).unix>>,
                        endDate |-> IF req.endDate = <<>> THEN <<>>
                                    ELSE <<endOfDay(ParseDate(req.endDate).unix)>>,
                        page |-> parsePage(req.page),
                        limit |-> parseLimit(req.limit)] >>]

ParameterForms == {"absent", "valid", "malformed"}

RECURSIVE Itoa(_)
\* The decimal digits of n >= 0.
Itoa(n) == IF n < 10 THEN <<48 + n>> ELSE Append(Itoa(n \div 10), 48 + (n % 10))

\* "", "0", "1", "2", "-1", "+2", "100", "101", "x", "1x", the largest int
\* and the number after it.
PaginationStrings ==
    { <<>>, <<48>>, <<49>>, <<50>>, <<45, 49>>, <<43, 50>>, <<49, 48, 48>>,
      <<49, 48, 49>>, <<120>>, <<49, 120>>, Itoa(MaxInt), Itoa(MaxInt + 1) }

D_2024_01_01 == <<50, 48, 50, 52, 45, 48, 49, 45, 48, 49>>
D_2024_01_31 == <<50, 48, 50, 52, 45, 48, 49, 45, 51, 49>>
D_2024_02_30 == <<50, 48, 50, 52, 45, 48, 50, 45, 51, 48>>
D_2024_1_1 == <<50, 48, 50, 52, 45, 49, 45, 49>>

\* "", two dates, a day that does not exist and a date not in the layout.
DateStrings == {<<>>, D_2024_01_01, D_2024_01_31, D_2024_02_30, D_2024_1_1}

T_openai == <<111, 112, 101, 110, 97, 105>>
T_blank == <<32>>
T_cat_padded == <<32, 99, 97, 116, 32>>

\* Requests with every form of identity, date, page and limit.
ValidationCase ==
    request \in [q : {T_cat}, userID : ParameterForms, providerID : {<<>>},
                 tagID : ParameterForms,
                 startDate : {<<>>, D_2024_01_01, D_2024_1_1},
                 endDate : {<<>>, D_2024_01_31, D_2024_02_30},
                 page : PaginationStrings, limit : PaginationStrings,
                 serviceFails : BOOLEAN]

\* Requests with every combination of free-text term and filters.
FilterCase ==
    request \in [q : {<<>>, T_blank, T_cat, T_cat_padded},
                 userID : {"absent", "valid"}, providerID : {<<>>, T_openai},
                 tagID : {"absent", "valid"},
                 startDate : DateStrings, endDate : DateStrings,
                 page : {<<>>, <<50>>}, limit : {<<>>, <<51>>},
                 serviceFails : {FALSE}]

InitHandler ==
    /\ pc = "handle"
    /\ (ValidationCase \/ FilterCase)
    /\ httpStatus = 0 /\ coreCalls = <<>>
    /\ query = <<>>
    /\ IdleText /\ IdleSelect /\ IdleSort /\ IdleSearch /\ IdleScore /\ IdleExtra

Search ==
    /\ pc = "handle"
    /\ httpStatus' = searchHandler(request).status
    /\ coreCalls' = coreCalls \o searchHandler(request).calls
    /\ pc' = "answered"
    /\ UNCHANGED <<query, request, textVars, selectVars, sortVars, searchVars, scoreVars,
                   extraVars>>

NextHandler == Search

SpecHandler == InitHandler /\ [][NextHandler]_vars

-----------------------------------------------------------------------------
(* buildSearchQuery (elasticsearch.go, lines 765-1007), applied to the     *)
(* arguments of the handler's call.  The request body is a record: the     *)
(* must clauses, the should clauses, minimum_should_match, from and size.  *)

IsSpace(c) == c \in {9, 10, 11, 12, 13, 32, 133, 160}

RECURSIVE TrimLeft(_)
TrimLeft(s) == IF s # <<>> /\ IsSpace(Head(s)) THEN TrimLeft(Tail(s)) ELSE s

RECURSIVE TrimRight(_)
TrimRight(s) ==
    IF s # <<>> /\ IsSpace(s[Len(s)]) THEN TrimRight(SubSeq(s, 1, Len(s) - 1)) ELSE s

\* strings.TrimSpace
TrimSpace(s) == TrimRight(TrimLeft(s))

RECURSIVE Pad(_, _)
\* The decimal digits of n, with zeros in front up to the width.
Pad(n, width) ==
    IF width = 0 THEN <<>> ELSE Append(Pad(n \div 10, width - 1), 48 + (n % 10))

\* t.Format("2006-01-02T15:04:05Z07:00") of an instant in UTC.
FormatRFC3339(t) ==
    LET days == t \div 86400
        secs == t % 86400
        y == CHOOSE yy \in 1970..2037 :
                 DaysBeforeYear(yy) <= days /\ days < DaysBeforeYear(yy + 1)
        yday == days - DaysBeforeYear(y)
        m == CHOOSE mm \in 1..12 :
                 /\ DaysBeforeMonth(y, mm) <= yday
                 /\ yday < DaysBeforeMonth(y, mm) + DaysInMonth(y, mm)
        d == yday - DaysBeforeMonth(y, m) + 1
    IN  Pad(y, 4) \o <<45>> \o Pad(m, 2) \o <<45>> \o Pad(d, 2) \o <<84>>
            \o Pad(secs \div 3600, 2) \o <<58>> \o Pad((secs % 3600) \div 60, 2)
            \o <<58>> \o Pad(secs % 60, 2) \o <<90>>

\* Lines 774-804: the user, provider and tag filters.
termClauses(userID, providerID, tagID) ==
    (IF userID # "absent"
     THEN << [kind |-> "term", field |-> "user_id", value |-> userID] >> ELSE <<>>)
    \o (IF providerID # <<>>
        THEN << [kind |-> "term", field |-> "provider", value |-> providerID] >>
        ELSE <<>>)
    \o (IF tagID # "absent"
        THEN << [kind |-> "nested", field |-> "tags.id", value |-> tagID] >> ELSE <<>>)

\* A plausible slip: the upper bound of the range written as "lt".
dateRangeExclusiveEnd(startDate, endDate) ==
    [k \in (IF startDate # <<>> THEN {"gte"} ELSE {})
            \cup (IF endDate # <<>> THEN {"lt"} ELSE {}) |->
        IF k = "gte" THEN FormatRFC3339(startDate[1]) ELSE FormatRFC3339(endDate[1])]

\* Lines 808-814: the bounds of the range on created_at.
dateRange(startDate, endDate) ==
    [k \in (IF startDate # <<>> THEN {"gte"} ELSE {})
            \cup (IF endDate # <<>> THEN {"lte"} ELSE {}) |->
        IF k = "gte" THEN FormatRFC3339(startDate[1]) ELSE FormatRFC3339(endDate[1])]

\* Lines 806-820
rangeClauses(startDate, endDate) ==
    IF startDate # <<>> \/ endDate # <<>>
    THEN << [kind |-> "range", field |-> "created_at",
             value |-> dateRange(startDate, endDate)] >>
    ELSE <<>>

\* Lines 823-962: the relevance clauses, three (title, messages, tags) in
\* each of the four tiers.
searchQueries(q) ==
    LET tier(n, type, option) ==
            << [tier |-> n, path |-> "", type |-> type, option |-> option, query |-> q],
               [tier |-> n, path |-> "messages", type |-> type, option |-> option,
                query |-> q],
               [tier |-> n, path |-> "tags", type |-> type, option |-> option,
                query |-> q] >>
    IN  tier(1, "phrase", "slop 0") \o tier(2, "best_fields", "fuzziness AUTO")
            \o tier(3, "cross_fields", "operator and")
            \o tier(4, "best_fields", "operator or")

buildSearchQuery(q, userID, providerID, tagID, startDate, endDate, page, limit) ==
    LET trimmed == TrimSpace(q)
        offset == WrapInt(WrapInt(page - 1) * limit)
    IN  [must |-> termClauses(userID, providerID, tagID)
                      \o rangeClauses(startDate, endDate),
         should |-> searchQueries(trimmed),
         minimumShouldMatch |-> 1,
         from |-> offset,
         size |-> limit]

\* The query the repository builds for the call the handler made.
BuildSearchQuery ==
    /\ pc = "answered"
    /\ coreCalls # <<>>
    /\ LET call == coreCalls[1]
       IN  searchBody' = buildSearchQuery(call.query, call.userID, call.providerID,
                                          call.tagID, call.startDate, call.endDate,
                                          call.page, call.limit)
    /\ pc' = "built"
    /\ UNCHANGED outsideQuery

NextQuery == Search \/ BuildSearchQuery

SpecQuery == InitHandler /\ [][NextQuery]_vars

-----------------------------------------------------------------------------
(* The user service (src/internal/services/user.go) over the user          *)
(* repository (src/internal/repositories/user.go).  A pointer is <<>> when *)
(* nil and <<v>> when it points to v; an error is "" when nil.             *)

User(id) == [id |-> id]

\* UserRepository.GetByID (lines 28-38): the row, (nil, nil) when there is
\* none, (nil, err) when the query fails.
GetByID(table, failure, id) ==
    IF failure # "" THEN [user |-> <<>>, err |-> failure]
    ELSE IF id \notin table THEN [user |-> <<>>, err |-> ""]
    ELSE [user |-> <<User(id)>>, err |-> ""]

\* A plausible slip: the repository's (nil, nil) handed on as it is.
getUserByIDWithoutNotFound(table, failure, id) == GetByID(table, failure, id)

\* UserService.GetUserByID (lines 24-35)
getUserByID(table, failure, id) ==
    LET found == GetByID(table, failure, id)
    IN  IF found.err # "" THEN [user |-> <<>>, err |-> found.err]
        ELSE IF found.user = <<>> THEN [user |-> <<>>, err |-> "ErrUserNotFound"]
        ELSE [user |-> found.user, err |-> ""]

DatabaseFailures == {"", "connection refused", "context deadline exceeded"}

InitUser ==
    /\ pc = "user"
    /\ userTable \in SUBSET (1..MaxUsers)
    /\ userFailure \in DatabaseFailures
    /\ requestedID \in 1..MaxUsers
    /\ userResult = NoResult
    /\ IdleBase /\ IdleQuery /\ IdleConversation /\ IdleTag /\ IdleConcurrent

GetUserByID ==
    /\ pc = "user"
    /\ userResult' = getUserByID(userTable, userFailure, requestedID)
    /\ pc' = "got"
    /\ UNCHANGED <<outsideUser, userTable, userFailure, requestedID>>

NextUser == GetUserByID

SpecUser == InitUser /\ [][NextUser]_vars

-----------------------------------------------------------------------------
(* The conversation service (src/unnamed/part_005) over the conversation   *)
(* repository, the indexer (elasticsearch_indexer.go) and the full sync    *)
(* (SyncService.SyncAll).  A row and a document carry a title and the set  *)
(* of their tag names; the other columns play no part.  The relational     *)
(* store always answers; the search engine answers while indexReachable.   *)

ConversationIDs == 1..MaxConversations
TagNameLists == {<<>>, <<"go">>, <<"es">>, <<"go", "es">>, <<"go", "go">>}
Titles == {"first", "second"}

\* Conversation.ToESDocument (src/unnamed/part_001 lines 25-57)
ToESDocument(row) == [title |-> row.title, tags |-> row.tags]

\* The body UpdateConversation sends (lines 335-345): the scalar fields of
\* the document, without its messages and without its tags.
updateDoc(doc) == [title |-> doc.title]

\* An update request leaves every field the body does not name as it was.
MergeFields(old, body) ==
    [f \in DOMAIN old |-> IF f \in DOMAIN body THEN body[f] ELSE old[f]]

\* ElasticsearchIndexerImpl.UpdateConversation (lines 331-370); an update
\* of a document the index does not hold is an error response.
indexerUpdateConversation(index, reachable, id, doc) ==
    IF ~reachable THEN [index |-> index, err |-> "failed to update conversation"]
    ELSE IF id \notin DOMAIN index
    THEN [index |-> index, err |-> "update request failed with status"]
    ELSE [index |-> [index EXCEPT ![id] = MergeFields(@, updateDoc(doc))],
          err |-> ""]

\* ElasticsearchIndexerImpl.DeleteConversation (lines 258-278); deleting a
\* document the index does not hold is a 404, which res.IsError() reports.
indexerDeleteConversation(index, reachable, id) ==
    IF ~reachable THEN [index |-> index, err |-> "failed to delete conversation"]
    ELSE IF id \notin DOMAIN index
    THEN [index |-> index, err |-> "delete request failed with status"]
    ELSE [index |-> [c \in DOMAIN index \ {id} |-> index[c]], err |-> ""]

\* ElasticsearchIndexerImpl.BulkIndexConversations (lines 281-328): one
\* "index" operation per document handed in, and nothing else.
BulkIndexConversations(index, reachable, documents) ==
    IF DOMAIN documents = {} THEN [index |-> index, err |-> ""]
    ELSE IF ~reachable
    THEN [index |-> index, err |-> "failed to bulk index conversations"]
    ELSE [index |-> [c \in DOMAIN index \cup DOMAIN documents |->
                        IF c \in DOMAIN documents THEN documents[c] ELSE index[c]],
          err |-> ""]

Call(op, id, e) == [op |-> op, id |-> id, err |-> e, reachable |-> indexReachable]

\* Every conversation has a row and the index holds the document of each.
InitConversation ==
    /\ pc = "conversations"
    /\ conversationRows \in
           [ConversationIDs -> [title : Titles, tags : {{}, {"go"}}]]
    /\ indexDocuments = [c \in ConversationIDs |-> ToESDocument(conversationRows[c])]
    /\ indexReachable = TRUE
    /\ lastCall = NoCall
    /\ IdleBase /\ IdleQuery /\ IdleUser /\ IdleTag /\ IdleConcurrent

\* ConversationServiceImpl.UpdateConversationTags (part_005 lines 139-186):
\* CreateOrGetTags gives one tag for each distinct name, ReplaceTags makes
\* them the tags of the row, and a failure of the indexer is only logged.
UpdateConversationTags ==
    /\ pc = "conversations"
    /\ \E id \in ConversationIDs, tagNames \in TagNameLists :
          IF id \notin DOMAIN conversationRows
          THEN /\ lastCall' = Call("UpdateConversationTags", id, "ErrConversationNotFound")
               /\ UNCHANGED <<conversationRows, indexDocuments>>
          ELSE LET rows == [conversationRows EXCEPT ![id].tags = Range(tagNames)]
                   updated == indexerUpdateConversation(indexDocuments, indexReachable,
                                                        id, ToESDocument(rows[id]))
               IN  /\ conversationRows' = rows
                   /\ indexDocuments' = updated.index
                   /\ lastCall' = Call("UpdateConversationTags", id, "")
    /\ UNCHANGED <<pc, indexReachable, outsideConversation>>

\* ConversationServiceImpl.DeleteConversation (part_005 lines 63-90)
DeleteConversation ==
    /\ pc = "conversations"
    /\ \E id \in ConversationIDs :
          IF id \notin DOMAIN conversationRows
          THEN /\ lastCall' = Call("DeleteConversation", id, "ErrConversationNotFound")
               /\ UNCHANGED <<conversationRows, indexDocuments>>
          ELSE LET deleted == indexerDeleteConversation(indexDocuments, indexReachable, id)
               IN  /\ conversationRows' =
                          [c \in DOMAIN conversationRows \ {id} |-> conversationRows[c]]
                   /\ indexDocuments' = deleted.index
                   /\ lastCall' = Call("DeleteConversation", id, "")
    /\ UNCHANGED <<pc, indexReachable, outsideConversation>>

\* SyncService.SyncAll (services/tag.go lines 173-189): FindAll reads the
\* live rows, and their documents are indexed in bulk.
SyncAll ==
    /\ pc = "conversations"
    /\ LET documents == [c \in DOMAIN conversationRows |->
                            ToESDocument(conversationRows[c])]
           indexed == BulkIndexConversations(indexDocuments, indexReachable, documents)
       IN  /\ indexDocuments' = indexed.index
           /\ lastCall' = Call("SyncAll", 0, indexed.err)
    /\ UNCHANGED <<pc, conversationRows, indexReachable, outsideConversation>>

\* The full sync, when it returns without an error.
SyncAllCompletes == SyncAll /\ lastCall'.err = ""

\* The search engine goes away and comes back.
IndexFails ==
    /\ pc = "conversations" /\ indexReachable
    /\ indexReachable' = FALSE
    /\ UNCHANGED <<pc, conversationRows, indexDocuments, lastCall, outsideConversation>>

IndexRecovers ==
    /\ pc = "conversations" /\ ~indexReachable
    /\ indexReachable' = TRUE
    /\ UNCHANGED <<pc, conversationRows, indexDocuments, lastCall, outsideConversation>>

NextConversation ==
    \/ UpdateConversationTags
    \/ DeleteConversation
    \/ SyncAll
    \/ IndexFails
    \/ IndexRecovers

SpecConversation == InitConversation /\ [][NextConversation]_vars

\* The engine does not stay away for ever, and the full sync is run again
\* and again: whenever it can complete with an effect it eventually does.
SpecConversationFair ==
    /\ SpecConversation
    /\ WF_vars(IndexRecovers)
    /\ SF_vars(SyncAllCompletes)

-----------------------------------------------------------------------------
(* The tag service (src/internal/services/tag.go) over the tag repository  *)
(* (src/unnamed/part_007), with requests served concurrently: each query   *)
(* and each write is one step, and the steps of different requests         *)
(* interleave.  The tags table (migration 006) has a primary key on id and *)
(* a plain index on name, so an insert or an update never fails on a name. *)
(* A tag is identified by the position of its row in tagRows.              *)

TagRequests == 1..MaxRequests
TagNames == {"go", "es"}
TagNameArguments == {<<"go">>, <<"go", "es">>, <<"es", "es">>}

NoTagCall ==
    [op |-> "", id |-> 0, names |-> <<>>, at |-> "idle", found |-> {},
     err |-> "", result |-> {}, wrote |-> FALSE]

\* The rows whose name is one of the names.
RowsNamed(names) == {i \in DOMAIN tagRows : tagRows[i] \in names}

\* Lines 105-113 of CreateOrGetTags: the names without repetitions, in the
\* order of their first occurrence.
uniqueNameList(names) ==
    SelectSeq([i \in DOMAIN names |->
                  IF \E j \in 1..(i - 1) : names[j] = names[i] THEN "" ELSE names[i]],
              LAMBDA n : n # "")

CallReturned(call, e, result) ==
    [call EXCEPT !.at = "returned", !.err = e, !.result = result]

InitTags ==
    /\ pc = "tags"
    /\ tagRows \in {<<>>, <<"go">>, <<"go", "es">>}
    /\ tagCalls = [r \in TagRequests |-> NoTagCall]
    /\ IdleBase /\ IdleQuery /\ IdleUser /\ IdleConversation /\ IdleConcurrent

\* A request arrives (handlers/tag.go lines 95-103 and 133-149; part_005
\* lines 102 and 153 for CreateOrGetTags).
BeginCall ==
    /\ pc = "tags" /\ Len(tagRows) < MaxTags
    /\ \E r \in TagRequests :
          /\ tagCalls[r].at = "idle"
          /\ \/ \E name \in TagNames :
                   tagCalls' = [tagCalls EXCEPT ![r] =
                       [NoTagCall EXCEPT !.op = "CreateTag", !.names = <<name>>,
                                         !.at = "lookup"]]
             \/ \E id \in 1..MaxTags, name \in TagNames :
                   tagCalls' = [tagCalls EXCEPT ![r] =
                       [NoTagCall EXCEPT !.op = "UpdateTag", !.id = id,
                                         !.names = <<name>>, !.at = "get"]]
             \/ \E names \in TagNameArguments :
                   tagCalls' = [tagCalls EXCEPT ![r] =
                       [NoTagCall EXCEPT !.op = "CreateOrGetTags", !.names = names,
                                         !.at = "lookup"]]
    /\ UNCHANGED <<pc, tagRows, outsideTag>>

\* UpdateTag, lines 95-102: the tag must exist.
UpdateTagGetByID ==
    /\ pc = "tags"
    /\ \E r \in TagRequests :
          LET call == tagCalls[r]
          IN  /\ call.op = "UpdateTag" /\ call.at = "get"
              /\ tagCalls' = [tagCalls EXCEPT ![r] =
                     IF call.id \in DOMAIN tagRows
                     THEN [call EXCEPT !.at = "lookup"]
                     ELSE CallReturned(call, "ErrTagNotFound", {})]
    /\ UNCHANGED <<pc, tagRows, outsideTag>>

\* TagRepositoryImpl.GetByName (part_007 lines 48-58) as CreateTag (lines
\* 70-77) and UpdateTag (lines 105-112) use it.  First gives the row with
\* the least identifier; identifiers are random, so it may be any row of
\* that name.
GetByName ==
    /\ pc = "tags"
    /\ \E r \in TagRequests :
          LET call == tagCalls[r]
              named == RowsNamed({call.names[1]})
          IN  /\ call.op \in {"CreateTag", "UpdateTag"} /\ call.at = "lookup"
              /\ \E found \in (IF named = {} THEN {{}} ELSE {{i} : i \in named}) :
                    tagCalls' = [tagCalls EXCEPT ![r] =
                        IF call.op = "CreateTag" /\ found # {}
                        THEN CallReturned([call EXCEPT !.found = found], "", found)
                        ELSE IF call.op = "UpdateTag" /\ found # {} /\ found # {call.id}
                        THEN CallReturned([call EXCEPT !.found = found], "ErrTagNameExists", {})
                        ELSE [call EXCEPT !.found = found, !.at = "write"]]
    /\ UNCHANGED <<pc, tagRows, outsideTag>>

\* TagRepositoryImpl.GetByNames (part_007 lines 61-72) as CreateOrGetTags
\* uses it (lines 116-125).
GetByNames ==
    /\ pc = "tags"
    /\ \E r \in TagRequests :
          LET call == tagCalls[r]
          IN  /\ call.op = "CreateOrGetTags" /\ call.at = "lookup"
              /\ tagCalls' = [tagCalls EXCEPT ![r] =
                     [call EXCEPT !.found = RowsNamed(Range(call.names)),
                                  !.at = "write"]]
    /\ UNCHANGED <<pc, tagRows, outsideTag>>

\* CreateTag, lines 80-89: the insert.
CreateTag ==
    /\ pc = "tags"
    /\ \E r \in TagRequests :
          LET call == tagCalls[r]
          IN  /\ call.op = "CreateTag" /\ call.at = "write"
              /\ tagRows' = Append(tagRows, call.names[1])
              /\ tagCalls' = [tagCalls EXCEPT ![r] =
                     CallReturned([call EXCEPT !.wrote = TRUE], "", {Len(tagRows) + 1})]
    /\ UNCHANGED <<pc, outsideTag>>

\* UpdateTag, lines 115-121: Save writes the row under its identifier.
UpdateTag ==
    /\ pc = "tags"
    /\ \E r \in TagRequests :
          LET call == tagCalls[r]
          IN  /\ call.op = "UpdateTag" /\ call.at = "write"
              /\ tagRows' = [tagRows EXCEPT ![call.id] = call.names[1]]
              /\ tagCalls' = [tagCalls EXCEPT ![r] =
                     CallReturned([call EXCEPT !.wrote = TRUE], "", {call.id})]
    /\ UNCHANGED <<pc, outsideTag>>

\* CreateOrGetTags, part_007 lines 127-150: a row for every name that the
\* lookup did not find.
CreateOrGetTags ==
    /\ pc = "tags"
    /\ \E r \in TagRequests :
          LET call == tagCalls[r]
              existingNames == {tagRows[i] : i \in call.found}
              tagsToCreate == SelectSeq(uniqueNameList(call.names),
                                        LAMBDA n : n \notin existingNames)
          IN  /\ call.op = "CreateOrGetTags" /\ call.at = "write"
              /\ tagRows' = tagRows \o tagsToCreate
              /\ tagCalls' = [tagCalls EXCEPT ![r] =
                     CallReturned([call EXCEPT !.wrote = (tagsToCreate # <<>>)], "",
                              call.found \cup
                                  ((Len(tagRows) + 1)..(Len(tagRows) + Len(tagsToCreate))))]
    /\ UNCHANGED <<pc, outsideTag>>

\* The response is sent and the request is gone.
Respond ==
    /\ pc = "tags"
    /\ \E r \in TagRequests :
          /\ tagCalls[r].at = "returned"
          /\ tagCalls' = [tagCalls EXCEPT ![r] = NoTagCall]
    /\ UNCHANGED <<pc, tagRows, outsideTag>>

NextTags ==
    \/ BeginCall
    \/ UpdateTagGetByID
    \/ GetByName
    \/ GetByNames
    \/ CreateTag
    \/ UpdateTag
    \/ CreateOrGetTags
    \/ Respond

SpecTags == InitTags /\ [][NextTags]_vars

-----------------------------------------------------------------------------
(* Two searches on one repository (elasticsearch.go lines 645-648: the     *)
(* client and the index name, both only read).  Each search runs           *)
(* SearchConversationsWithMatchedMessages (lines 659-762) as four steps,   *)
(* the engine call with the parse, the filter, the ranking, the            *)
(* annotation, and the steps of the two interleave.  Everything a search   *)
(* computes is held in the local variables of its own call.                *)

Goroutines == {1, 2}

NoFrame ==
    [owner |-> 0, esDocs |-> <<>>, highlights |-> <<>>, total |-> 0,
     filteredDocs |-> <<>>, filteredHighlights |-> <<>>]

NoSearchResult ==
    [docs |-> <<>>, matchedMessages |-> <<>>, matchedFields |-> <<>>, total |-> 0,
     err |-> ""]

\* A plausible slip: the results of the steps kept in fields of the
\* repository, which every call shares.
frameInRepository(g) == 1

\* Lines 661, 667-668 and 682-683: esDocs, highlights, total, filteredDocs,
\* filteredHighlights and the two maps are variables of the call.
frameOf(g) == g

\* What the search returns when nothing else runs: lines 659-762 in order.
searchAlone(keyword, engine, resp) ==
    LET r == searchConversationDocumentsWithHighlights(engine, resp)
        kept == filteredIndices(r.docs, keyword)
        filtered == [k \in 1..Len(kept) |-> r.docs[kept[k]]]
        filteredHighlights == [k \in 1..Len(kept) |-> r.highlights[kept[k]]]
        sorted == sortByRelevance(filtered, keyword)
    IN  IF r.err # "" THEN [NoSearchResult EXCEPT !.err = r.err]
        ELSE [docs |-> sorted,
              matchedMessages |-> buildMatchedMessagesMap(sorted, filteredHighlights, keyword),
              matchedFields |-> buildMatchedFieldsMap(sorted, filteredHighlights),
              total |-> r.total,
              err |-> ""]

ConcurrentBodies ==
    {b \in DocBodies : b.title \in {T_Cat, T_catalog} \/ Len(b.messages) = 2}

RECURSIVE ConcurrentDocLists(_)
ConcurrentDocLists(n) ==
    IF n = 0 THEN {<<>>}
    ELSE {Append(l, [id |-> n, title |-> b.title, sourceTitle |-> b.sourceTitle,
                     messages |-> b.messages, tags |-> b.tags]) :
             l \in ConcurrentDocLists(n - 1), b \in ConcurrentBodies}

\* The arguments of a search and what the engine answers it.
SearchInputs ==
    { [query |-> q, outcome |-> "ok",
       response |-> WellFormedResponse(ds,
                        [i \in 1..Len(ds) |-> {"messages.content", "tags.name"}],
                        Len(ds))] :
          q \in {T_cat, T_catalog}, ds \in ConcurrentDocLists(MaxHits) }
    \cup { [query |-> T_cat, outcome |-> "transport",
            response |-> WellFormedResponse(<<>>, <<>>, 0)] }

InitConcurrent ==
    /\ pc = "concurrent"
    /\ \E input \in [Goroutines -> SearchInputs] :
          searches = [g \in Goroutines |->
              [query |-> input[g].query, outcome |-> input[g].outcome,
               response |-> input[g].response, at |-> "search", foreign |-> FALSE,
               overlapped |-> FALSE, result |-> NoSearchResult]]
    /\ frames = [g \in Goroutines |-> NoFrame]
    /\ IdleBase /\ IdleQuery /\ IdleUser /\ IdleConversation /\ IdleTag

\* The other search is between its first step and its return.
OtherUnderWay(g) ==
    \E h \in Goroutines \ {g} : searches[h].at \in {"filter", "sort", "annotate"}

\* A step of search g that read frame f: it saw another search's values if
\* the frame was last written by another search.
Stepped(g, f, at) ==
    [searches[g] EXCEPT !.at = at,
                        !.foreign = @ \/ f.owner # g,
                        !.overlapped = @ \/ OtherUnderWay(g)]

\* Step 1 (lines 661-664): the engine call and the parse.
SearchDocuments ==
    /\ pc = "concurrent"
    /\ \E g \in Goroutines :
          LET call == searches[g]
              r == searchConversationDocumentsWithHighlights(call.outcome, call.response)
          IN  /\ call.at = "search"
              /\ IF r.err # ""
                 THEN /\ searches' = [searches EXCEPT ![g] =
                             [call EXCEPT !.at = "returned",
                                          !.overlapped = @ \/ OtherUnderWay(g),
                                          !.result = [NoSearchResult EXCEPT !.err = r.err]]]
                      /\ UNCHANGED frames
                 ELSE /\ frames' = [frames EXCEPT ![frameOf(g)] =
                             [NoFrame EXCEPT !.owner = g, !.esDocs = r.docs,
                                             !.highlights = r.highlights,
                                             !.total = r.total]]
                      /\ searches' = [searches EXCEPT ![g] =
                             [call EXCEPT !.at = "filter",
                                          !.overlapped = @ \/ OtherUnderWay(g)]]
    /\ UNCHANGED <<pc, outsideConcurrent>>

\* Step 2 (lines 667-676): the exact-match filter.
FilterDocuments ==
    /\ pc = "concurrent"
    /\ \E g \in Goroutines :
          LET f == frames[frameOf(g)]
              kept == filteredIndices(f.esDocs, searches[g].query)
          IN  /\ searches[g].at = "filter"
              /\ frames' = [frames EXCEPT ![frameOf(g)] =
                     [f EXCEPT !.owner = g,
                               !.filteredDocs = [k \in 1..Len(kept) |-> f.esDocs[kept[k]]],
                               !.filteredHighlights =
                                   [k \in 1..Len(kept) |-> f.highlights[kept[k]]]]]
              /\ searches' = [searches EXCEPT ![g] = Stepped(g, f, "sort")]
    /\ UNCHANGED <<pc, outsideConcurrent>>

\* Step 3 (line 679): the ranking, in place.
SortDocuments ==
    /\ pc = "concurrent"
    /\ \E g \in Goroutines :
          LET f == frames[frameOf(g)]
          IN  /\ searches[g].at = "sort"
              /\ frames' = [frames EXCEPT ![frameOf(g)] =
                     [f EXCEPT !.owner = g,
                               !.filteredDocs =
                                   sortByRelevance(f.filteredDocs, searches[g].query)]]
              /\ searches' = [searches EXCEPT ![g] = Stepped(g, f, "annotate")]
    /\ UNCHANGED <<pc, outsideConcurrent>>

\* Step 4 (lines 682-761): the two maps, and the return.  The highlights
\* are paired with the ranked documents by position, as the code pairs
\* them; a list shorter than the documents pairs the rest with no highlight.
AnnotateAndReturn ==
    /\ pc = "concurrent"
    /\ \E g \in Goroutines :
          LET f == frames[frameOf(g)]
              paired == [i \in 1..Len(f.filteredDocs) |->
                            IF i <= Len(f.filteredHighlights)
                            THEN f.filteredHighlights[i] ELSE {}]
          IN  /\ searches[g].at = "annotate"
              /\ searches' = [searches EXCEPT ![g] =
                     [Stepped(g, f, "returned") EXCEPT !.result =
                         [docs |-> f.filteredDocs,
                          matchedMessages |->
                              buildMatchedMessagesMap(f.filteredDocs, paired,
                                                      searches[g].query),
                          matchedFields |-> buildMatchedFieldsMap(f.filteredDocs, paired),
                          total |-> f.total,
                          err |-> ""]]]
              /\ UNCHANGED frames
    /\ UNCHANGED <<pc, outsideConcurrent>>

NextConcurrent ==
    \/ SearchDocuments
    \/ FilterDocuments
    \/ SortDocuments
    \/ AnnotateAndReturn

SpecConcurrent == InitConcurrent /\ [][NextConcurrent]_vars

-----------------------------------------------------------------------------
(* Properties of the text functions (checked under SpecText) *)

\* Word characters as the specification words them: ASCII letter, digit,
\* underscore, or any byte >= 128.
WordByte(c) ==
    \/ c \in 97..122 \/ c \in 65..90 \/ c \in 48..57 \/ c = 95 \/ c >= 128

LowerBytes(s) == Bytes(ToLower(s))

\* Offsets at which the lower-cased keyword occurs in the lower-cased text.
Occurrences(t, keyword) ==
    {p \in 0..(Len(LowerBytes(t)) - Len(LowerBytes(keyword))) :
        OccursAt(LowerBytes(t), LowerBytes(keyword), p)}

\* Occurrences whose two neighbours are outside the text or not word characters.
BoundedOccurrences(t, keyword) ==
    {p \in Occurrences(t, keyword) :
        /\ (p = 0 \/ ~WordByte(LowerBytes(t)[p]))
        /\ (p + Len(LowerBytes(keyword)) = Len(LowerBytes(t))
              \/ ~WordByte(LowerBytes(t)[p + Len(LowerBytes(keyword)) + 1]))}

Counted == pc \in {"counted", "scored", "matched"}
Scored == pc \in {"scored", "matched"}

\* C7 (as claimed): countKeywordMatches gives 1 for the text U+82F1 U+8BED
\* U+5B66 U+4E60 U+5F88 U+6709 U+8DA3 with keyword U+82F1 U+8BED, and 0 for
\* the text U+82F1 U+65E0 U+8BED with the same keyword.
C7_CjkPrefixCountsOne ==
    (Counted /\ query = T_yingyu) =>
        /\ (text = T_yingyu_xuexi => count = 1)
        /\ (text = T_ying_wu_yu => count = 0)

\* C7 (amended): the counter gives 0 for both texts, because the byte after
\* the keyword in the first text is >= 128, a word character; it gives 1
\* when the text is the keyword alone.
C7_CjkPrefixCountsZero ==
    (Counted /\ query = T_yingyu) =>
        /\ (text = T_yingyu_xuexi => count = 0)
        /\ (text = T_ying_wu_yu => count = 0)
        /\ (text = T_yingyu => count = 1)

C7_Witness == pc = "counted" /\ query = T_yingyu /\ text = T_yingyu_xuexi

\* C8: countKeywordMatches counts an occurrence only if both of its
\* neighbours are outside the text or not word characters, so the count never
\* exceeds the number of such occurrences; "cat catalog cats" with keyword
\* "cat" gives 1; an empty text or keyword gives 0.
C8_WordBoundaryRule ==
    Counted =>
        /\ count <= Cardinality(BoundedOccurrences(text, query))
        /\ ((text = T_cat_catalog_cats /\ query = T_cat) => count = 1)
        /\ ((text = <<>> \/ query = <<>>) => count = 0)

C8_Witness ==
    /\ pc = "counted" /\ text = T_cat_catalog_cats /\ query = T_cat
    /\ count = 1 /\ Cardinality(Occurrences(text, query)) = 3

\* C9 (as claimed): a keyword of 3 or fewer characters is accepted in a text
\* only through a word-boundary occurrence; a longer keyword is accepted by
\* case-insensitive substring containment.
C9_ShortKeywordNeedsBoundary ==
    pc = "matched" =>
        IF RuneCount(query) <= 3
        THEN contains <=> (BoundedOccurrences(text, query) # {} /\ query # <<>>)
        ELSE contains <=> (Occurrences(text, query) # {} /\ text # <<>>)

\* C10 (as claimed): the count used for scoring equals the word-boundary count.
C10_SameCount == Scored => relevance = count

\* C10 (amended): the scorer counts substring occurrences whatever their
\* neighbours are: it is never below the word-boundary count, it is positive
\* exactly when the lower-cased keyword is a substring of the lower-cased
\* text, and the two counts agree when every occurrence is word-bounded.
C10_LenientCount ==
    Scored =>
        /\ relevance >= count
        /\ (relevance > 0 <=>
               (text # <<>> /\ query # <<>> /\ Occurrences(text, query) # {}))
        /\ (Occurrences(text, query) = BoundedOccurrences(text, query)
               => relevance = count)

C10_Witness == pc = "scored" /\ relevance > count /\ count > 0

-----------------------------------------------------------------------------
(* Properties of the matched-message selector (checked under SpecSelect) *)

ContainsKeywordMessage(m) == BoundedOccurrences(messageText(m), query) # {}

MatchingPositions ==
    {i \in 1..Len(messages) : query # <<>> /\ ContainsKeywordMessage(messages[i])}

DistinctIdentities ==
    \A i, j \in 1..Len(messages) : i # j => messages[i].id # messages[j].id

\* C3: the selector returns at most 3 messages, and when 3 or more messages
\* of the conversation contain the keyword, it returns 3 messages that all
\* contain it.
C3_SelectionBound ==
    pc = "selected" =>
        /\ Len(matchedMessages) <= 3
        /\ (Cardinality(MatchingPositions) >= 3 =>
               /\ Len(matchedMessages) = 3
               /\ \A k \in 1..3 : ContainsKeywordMessage(matchedMessages[k]))

C3_Witness ==
    /\ pc = "selected"
    /\ Cardinality(MatchingPositions) >= 3
    /\ 1 \notin MatchingPositions
    /\ Len(messages) = 5

FiveWithSecondAndFourth ==
    /\ Len(messages) = 5
    /\ DistinctIdentities
    /\ MatchingPositions = {2, 4}

\* C4 (as claimed): of 5 messages of which only the 2nd and the 4th contain
\* the keyword, the selector returns the 2nd, the 4th and the backfilled 1st,
\* as a list in the conversation's stored order.
C4_BackfillInStoredOrder ==
    (pc = "selected" /\ FiveWithSecondAndFourth) =>
        matchedMessages = <<messages[1], messages[2], messages[4]>>

\* C4 (amended): of 5 messages with distinct identities of which only the 2nd
\* and the 4th contain the keyword, the selector returns exactly 3 messages:
\* the 2nd and the 4th first, then the backfilled 1st.
C4_BackfillAfterMatches ==
    (pc = "selected" /\ FiveWithSecondAndFourth) =>
        matchedMessages = <<messages[2], messages[4], messages[1]>>

C4_Witness == pc = "selected" /\ FiveWithSecondAndFourth

-----------------------------------------------------------------------------
(* Properties of the ranker (checked under SpecSort) *)

PositionBefore(doc) == CHOOSE k \in 1..Len(esDocs) : esDocs[k] = doc

\* C6: sortByRelevance leaves a permutation of its input with non-increasing
\* relevance scores in which documents of equal score keep the relative
\* order they had before ranking.
C6_StableDescendingSort ==
    pc = "sorted" =>
        /\ Len(docs) = Len(esDocs)
        /\ {docs[i] : i \in 1..Len(docs)} = {esDocs[i] : i \in 1..Len(esDocs)}
        /\ \A i \in 1..(Len(docs) - 1) :
               calculateRelevanceScore(docs[i], query)
                   >= calculateRelevanceScore(docs[i + 1], query)
        /\ \A i, j \in 1..Len(docs) :
               (i < j /\ calculateRelevanceScore(docs[i], query)
                            = calculateRelevanceScore(docs[j], query))
                   => PositionBefore(docs[i]) < PositionBefore(docs[j])

C6_Witness ==
    /\ pc = "sorted"
    /\ docs # esDocs
    /\ \E i, j \in 1..Len(docs) :
           /\ i < j
           /\ calculateRelevanceScore(docs[i], query) > 0
           /\ calculateRelevanceScore(docs[i], query)
                  = calculateRelevanceScore(docs[j], query)

-----------------------------------------------------------------------------
(* Properties of the search (checked under Spec) *)

HasBoundedOccurrence(t) == query # <<>> /\ t # <<>> /\ BoundedOccurrences(t, query) # {}

\* A genuine occurrence of the keyword in the title (source title when the
\* title is empty), in a message (source content when the content is empty)
\* or in a tag name.
GenuineMatch(doc) ==
    \/ HasBoundedOccurrence(docTitle(doc))
    \/ \E i \in 1..Len(doc.messages) : HasBoundedOccurrence(messageText(doc.messages[i]))
    \/ \E i \in 1..Len(doc.tags) : HasBoundedOccurrence(doc.tags[i].name)

Returned(doc) == doc \in Range(filteredDocs)

\* The highlight key set of the engine hit of the conversation with identity d.
OwnHighlight(d) == highlights[CHOOSE i \in 1..Len(esDocs) : esDocs[i].id = d]

\* C1 (as claimed): a parsed hit is returned if and only if one of its
\* searched fields holds a genuine (word-bounded) occurrence of the keyword.
C1_ExactMatchFilter ==
    pc = "returned" =>
        \A i \in 1..Len(esDocs) : Returned(esDocs[i]) <=> GenuineMatch(esDocs[i])

\* C2 (as claimed): the matched-field list of every returned conversation is
\* the canonical names, in the fixed order, whose key is in the highlight map
\* of that conversation's own hit, and every returned conversation has one.
C2_MatchedFieldsOfOwnHit ==
    pc = "returned" =>
        \A k \in 1..Len(filteredDocs) :
            /\ filteredDocs[k].id \in DOMAIN matchedFieldsMap
            /\ matchedFieldsMap[filteredDocs[k].id]
                   = SelectSeq(CanonicalFields,
                               LAMBDA f : f \in OwnHighlight(filteredDocs[k].id))

\* C5 (as claimed): a returned conversation has an entry in the matched
\* messages map only if the highlight map of its own hit holds a
\* messages.content or messages.source_content key.
C5_MessagesOnlyWithOwnMessageHighlight ==
    pc = "returned" =>
        \A k \in 1..Len(filteredDocs) :
            filteredDocs[k].id \in DOMAIN matchedMessagesMap
                => ( "messages.content" \in OwnHighlight(filteredDocs[k].id)
                     \/ "messages.source_content" \in OwnHighlight(filteredDocs[k].id) )

\* C26 (as claimed): countKeywordMatches is the number of positions at which
\* the keyword occurs with both neighbours outside the text or not word
\* characters, occurrences that overlap an earlier one included.
C26_CountsEveryPosition ==
    (pc = "counted" /\ text # <<>> /\ query # <<>>) =>
        count = Cardinality(BoundedOccurrences(text, query))

-----------------------------------------------------------------------------
(* Properties of the scorer (checked under SpecScore) *)

RECURSIVE CountFrom(_, _, _)
\* The number of occurrences met when reading left to right from offset
\* from, the reading resuming after each occurrence met.
CountFrom(occurrences, width, from) ==
    IF \E p \in occurrences : p >= from
    THEN LET first == CHOOSE p \in occurrences :
                         p >= from /\ \A r \in occurrences : r >= from => p <= r
         IN  1 + CountFrom(occurrences, width, first + width)
    ELSE 0

\* Case-insensitive occurrences of the keyword in the text.
OccurrenceCount(t, keyword) ==
    IF t = <<>> \/ keyword = <<>> THEN 0
    ELSE CountFrom(Occurrences(t, keyword), Len(LowerBytes(keyword)), 0)

TitleOrSourceTitle(doc) == IF doc.title = <<>> THEN doc.sourceTitle ELSE doc.title
ContentOrSourceContent(m) == IF m.content = <<>> THEN m.sourceContent ELSE m.content

ScoreFormula(doc, keyword) ==
    10 * OccurrenceCount(TitleOrSourceTitle(doc), keyword)
    + 5 * SumOver([i \in 1..Len(doc.messages) |->
                     OccurrenceCount(ContentOrSourceContent(doc.messages[i]), keyword)],
                  1, Len(doc.messages))
    + 8 * SumOver([i \in 1..Len(doc.tags) |->
                     OccurrenceCount(doc.tags[i].name, keyword)],
                  1, Len(doc.tags))

\* C11: the score of every conversation is 10 x the occurrences in the title
\* (the source title when the title is empty) + 5 x the occurrences summed
\* over the messages (content, or source content when the content is empty)
\* + 8 x the occurrences summed over the tag names; it is 0 for the empty
\* keyword and never negative.
C11_ScoreFormula ==
    pc = "scored" =>
        \A i \in 1..Len(docs) :
            /\ scores[i] = ScoreFormula(docs[i], query)
            /\ scores[i] >= 0
            /\ (query = <<>> => scores[i] = 0)

\* A conversation scored through both fall-backs next to one scored from a
\* tag name.
C11_Witness ==
    /\ pc = "scored" /\ query = T_cat /\ Len(docs) = 2
    /\ docs[1].title = <<>> /\ docs[1].sourceTitle = T_catalog
    /\ docs[1].messages # <<>> /\ docs[1].messages[1].content = <<>>
    /\ scores[1] = 15
    /\ docs[2].tags # <<>> /\ scores[2] = 8

\* The words of the keyword: its maximal runs without a space.
WordsOf(keyword) ==
    { SubSeq(keyword, p[1], p[2]) :
        p \in { r \in (1..Len(keyword)) \X (1..Len(keyword)) :
                  /\ r[1] <= r[2]
                  /\ \A k \in r[1]..r[2] : keyword[k] # 32
                  /\ (r[1] = 1 \/ keyword[r[1] - 1] = 32)
                  /\ (r[2] = Len(keyword) \/ keyword[r[2] + 1] = 32) } }

\* The text holds the whole phrase.
HoldsPhrase(t, keyword) == keyword # <<>> /\ Occurrences(t, keyword) # {}

\* The text holds a word of the phrase, but not the phrase.
HoldsWordsOnly(t, keyword) ==
    /\ ~HoldsPhrase(t, keyword)
    /\ \E w \in WordsOf(keyword) : Occurrences(t, w) # {}

\* a and b differ in the title only: a's holds the phrase, b's words of it.
TitlePair(a, b, keyword) ==
    /\ a.sourceTitle = b.sourceTitle /\ a.messages = b.messages /\ a.tags = b.tags
    /\ HoldsPhrase(a.title, keyword) /\ HoldsWordsOnly(b.title, keyword)

\* a and b differ in the content of one message only.
MessagePair(a, b, keyword) ==
    /\ a.title = b.title /\ a.sourceTitle = b.sourceTitle /\ a.tags = b.tags
    /\ Len(a.messages) = Len(b.messages)
    /\ \E k \in 1..Len(a.messages) :
         /\ \A m \in 1..Len(a.messages) : m # k => a.messages[m] = b.messages[m]
         /\ a.messages[k].id = b.messages[k].id
         /\ a.messages[k].sourceContent = b.messages[k].sourceContent
         /\ HoldsPhrase(a.messages[k].content, keyword)
         /\ HoldsWordsOnly(b.messages[k].content, keyword)

\* a and b differ in one tag name only.
TagPair(a, b, keyword) ==
    /\ a.title = b.title /\ a.sourceTitle = b.sourceTitle /\ a.messages = b.messages
    /\ Len(a.tags) = Len(b.tags)
    /\ \E k \in 1..Len(a.tags) :
         /\ \A m \in 1..Len(a.tags) : m # k => a.tags[m] = b.tags[m]
         /\ HoldsPhrase(a.tags[k].name, keyword)
         /\ HoldsWordsOnly(b.tags[k].name, keyword)

PhraseVersusWords(a, b, keyword) ==
    TitlePair(a, b, keyword) \/ MessagePair(a, b, keyword) \/ TagPair(a, b, keyword)

\* C14: of two conversations that are identical except for one field (the
\* title, a message or a tag name) that holds the exact query phrase in the
\* first and only words of the query in the second, the first scores at
\* least as high as the second.
C14_ScoreMonotone ==
    pc = "scored" =>
        \A i, j \in 1..Len(docs) :
            PhraseVersusWords(docs[i], docs[j], query) => scores[i] >= scores[j]

\* The pair that differs in a message is scored, after the pair's second
\* conversation in the list.
C14_Witness ==
    /\ pc = "scored" /\ query = T_a_cat /\ Len(docs) = 2
    /\ MessagePair(docs[2], docs[1], query)
    /\ scores[2] = 5 /\ scores[1] = 0

-----------------------------------------------------------------------------
(* Properties of the search (checked under Spec) *)

Finished == pc \in {"returned", "failed"}

\* C12 (as claimed): a search with an empty free-text term, for which the
\* engine applied the filters only and highlighted nothing, returns every
\* conversation the engine returned, each with an empty matched-field list.
C12_FilterOnlySearch ==
    (Finished /\ outcome = "ok" /\ query = <<>>
        /\ \A i \in 1..Len(highlights) : highlights[i] = {}) =>
        /\ pc = "returned"
        /\ \A i \in 1..Len(esDocs) :
             /\ Returned(esDocs[i])
             /\ esDocs[i].id \in DOMAIN matchedFieldsMap
             /\ matchedFieldsMap[esDocs[i].id] = <<>>

IsBudgetTitleDoc(doc) == doc.title = T_Budget_Planning_2024
IsBudgetsMessageDoc(doc) ==
    /\ doc.title = T_x /\ Len(doc.messages) = 1
    /\ doc.messages[1].content = T_the_annual_budgets_were

\* C13: for the query "budget", the conversation titled "Budget Planning
\* 2024" and the conversation whose only match is one message holding
\* "budgets" are both returned, the first before the second, in whichever
\* order the engine returned them.
C13_BudgetTitleFirst ==
    (pc = "returned" /\ query = T_budget /\ Len(esDocs) = 2
        /\ \E i, j \in 1..2 : IsBudgetTitleDoc(esDocs[i]) /\ IsBudgetsMessageDoc(esDocs[j])) =>
        /\ Len(filteredDocs) = 2
        /\ IsBudgetTitleDoc(filteredDocs[1])
        /\ IsBudgetsMessageDoc(filteredDocs[2])

\* The engine returned the message-only conversation first.
C13_Witness ==
    /\ pc = "returned" /\ query = T_budget /\ Len(esDocs) = 2
    /\ IsBudgetsMessageDoc(esDocs[1]) /\ IsBudgetTitleDoc(esDocs[2])
    /\ Len(filteredDocs) = 2 /\ IsBudgetTitleDoc(filteredDocs[1])

\* The response reports its total in one of the two forms the engine uses.
ReportsTotal(resp) == resp.totalForm \in {"number", "object"}

\* C15: the total a search returns is the total the engine reported; neither
\* the entries the parser skipped nor the hits the filter removed reduce it.
C15_TotalAsReported ==
    (pc = "returned" /\ ReportsTotal(response)) => resTotal = response.totalValue

\* A search whose response had a skipped entry and a hit that the filter
\* removed, and whose total exceeds the number of conversations returned.
C15_Witness ==
    /\ pc = "returned" /\ ReportsTotal(response)
    /\ Len(esDocs) < Len(response.entries)
    /\ Len(filteredDocs) < Len(esDocs)
    /\ resTotal > Len(response.entries)

\* C16: every search issues exactly one request to the engine; when the
\* request fails in transport, by its status or in decoding, the search
\* returns one error with nil documents, nil maps and total 0.
C16_SingleErrorNoRetry ==
    Finished =>
        /\ requests = 1
        /\ (outcome \in EngineFailures =>
              /\ pc = "failed"
              /\ err # ""
              /\ nilReturns = {"docs", "matchedMessages", "matchedFields"}
              /\ filteredDocs = <<>> /\ matchedMessagesMap = <<>>
              /\ matchedFieldsMap = <<>>
              /\ resTotal = 0)
        /\ (pc = "returned" <=> err = "")

C16_Witness ==
    /\ pc = "failed" /\ outcome = "status" /\ requests = 1
    /\ err = "search request failed with status"

\* The shapes the parser is claimed to refuse.
Malformed(resp) ==
    \/ ~resp.hasHits
    \/ resp.totalForm \in {"missing", "object_no_value", "string"}
    \/ ~resp.hitsIsArray

\* C17 (as claimed): a response without a hits object, without a total, with
\* a total of an unexpected shape or whose hits.hits is not an array makes
\* the parser return an error, no documents, no highlights and total 0.
C17_MalformedResponseIsFatal ==
    (Finished /\ outcome = "ok" /\ Malformed(response)) =>
        /\ pc = "failed" /\ err # ""
        /\ esDocs = <<>> /\ highlights = <<>> /\ total = 0

OtherTotalForm(resp) ==
    [resp EXCEPT !.totalForm = IF resp.totalForm = "number" THEN "object" ELSE "number"]

\* C18: a response whose hits.total is the bare number n and the response
\* that differs only in giving the total as an object with value n both parse
\* without error to total n, with the same documents and highlights.
C18_BothTotalForms ==
    (Finished /\ outcome = "ok" /\ ReportsTotal(response)
        /\ response.hasHits /\ response.hitsIsArray) =>
        /\ err = ""
        /\ total = response.totalValue
        /\ parseSearchResponseWithHighlights(OtherTotalForm(response))
             = [docs |-> esDocs, highlights |-> highlights, total |-> total, err |-> ""]

C18_Witness ==
    /\ pc = "returned" /\ response.totalForm = "object" /\ response.totalValue = 2
    /\ total = 2 /\ esDocs # <<>>

SameBody(a, b) ==
    /\ a.title = b.title /\ a.sourceTitle = b.sourceTitle
    /\ a.messages = b.messages /\ a.tags = b.tags

-----------------------------------------------------------------------------
(* Properties of the handler (checked under SpecHandler) *)

BadIdentity == request.userID = "malformed" \/ request.tagID = "malformed"
BadDate ==
    \/ request.startDate # <<>> /\ ~ParseDate(request.startDate).ok
    \/ request.endDate # <<>> /\ ~ParseDate(request.endDate).ok

\* The page or the limit of the request as a number, when it is one.
IsNumber(param) == Atoi(param).ok
NumberOf(param) == Atoi(param).value

BadPagination ==
    \/ IsNumber(request.page) /\ NumberOf(request.page) <= 0
    \/ IsNumber(request.limit)
           /\ (NumberOf(request.limit) <= 0 \/ NumberOf(request.limit) > 100)

\* C20 (as claimed): a request with a malformed user or tag identity, an
\* invalid start or end date, or a page <= 0, a limit <= 0 or a limit > 100
\* is answered with an error and SearchWithMatchedMessages is never called.
C20_RejectedBeforeCore ==
    (pc = "answered" /\ (BadIdentity \/ BadDate \/ BadPagination)) =>
        /\ httpStatus >= 400
        /\ coreCalls = <<>>

\* C20 (amended): a malformed identity or an invalid date is answered with
\* status 400 and no call of SearchWithMatchedMessages; any other request
\* calls it exactly once, with the page and the limit of the request when
\* they are numbers in range and with page 1 or limit 10 in place of a
\* missing, non-numeric or out-of-range value.
C20_RejectedOrDefaulted ==
    pc = "answered" =>
        IF BadIdentity \/ BadDate
        THEN httpStatus = 400 /\ coreCalls = <<>>
        ELSE /\ Len(coreCalls) = 1
             /\ httpStatus = (IF request.serviceFails THEN 500 ELSE 200)
             /\ coreCalls[1].page =
                   (IF IsNumber(request.page) /\ NumberOf(request.page) >= 1
                    THEN NumberOf(request.page) ELSE 1)
             /\ coreCalls[1].limit =
                   (IF IsNumber(request.limit) /\ NumberOf(request.limit) \in 1..100
                    THEN NumberOf(request.limit) ELSE 10)
             /\ coreCalls[1].limit \in 1..100

\* A request for page "0" with limit "101" reaches the core as page 1, limit 10.
C20_Witness ==
    /\ pc = "answered"
    /\ request.page = <<48>> /\ request.limit = <<49, 48, 49>>
    /\ httpStatus = 200
    /\ Len(coreCalls) = 1 /\ coreCalls[1].page = 1 /\ coreCalls[1].limit = 10

-----------------------------------------------------------------------------
(* Properties of the engine request (checked under SpecQuery) *)

\* The range clauses of the request body.
RangeClauses == SelectSeq(searchBody.must, LAMBDA c : c.kind = "range")

\* The instant an engine reads in "YYYY-MM-DDThh:mm:ssZ".
InstantOf(stamp) ==
    Unix(DigitsValue(SubSeq(stamp, 1, 4)), DigitsValue(SubSeq(stamp, 6, 7)),
         DigitsValue(SubSeq(stamp, 9, 10)), DigitsValue(SubSeq(stamp, 12, 13)),
         DigitsValue(SubSeq(stamp, 15, 16)), DigitsValue(SubSeq(stamp, 18, 19)))

\* A document created at the stamp satisfies the bounds: gte and lte are
\* inclusive, gt and lt exclusive, a bound that is absent always holds.
SatisfiesRange(stamp, bounds) ==
    /\ ("gte" \in DOMAIN bounds => InstantOf(stamp) >= InstantOf(bounds["gte"]))
    /\ ("gt" \in DOMAIN bounds => InstantOf(stamp) > InstantOf(bounds["gt"]))
    /\ ("lte" \in DOMAIN bounds => InstantOf(stamp) <= InstantOf(bounds["lte"]))
    /\ ("lt" \in DOMAIN bounds => InstantOf(stamp) < InstantOf(bounds["lt"]))

\* "T00:00:00Z", "T23:59:59Z"
StartOfDaySuffix == <<84, 48, 48, 58, 48, 48, 58, 48, 48, 90>>
EndOfDaySuffix == <<84, 50, 51, 58, 53, 57, 58, 53, 57, 90>>

\* "2024-01-31T23:00:00Z", "2024-02-01T00:00:01Z"
LateOnLastDay == D_2024_01_31 \o <<84, 50, 51, 58, 48, 48, 58, 48, 48, 90>>
JustAfterLastDay ==
    <<50, 48, 50, 52, 45, 48, 50, 45, 48, 49>> \o <<84, 48, 48, 58, 48, 48, 58, 48, 49, 90>>

\* C21: the range on created_at has the inclusive lower bound "gte" at
\* 00:00:00 of the start date and the inclusive upper bound "lte" at 23:59:59
\* of the end date, each only when the date was supplied, and there is no
\* range clause when neither was; for the range 2024-01-01 to 2024-01-31 a
\* conversation created at 2024-01-31T23:00:00 satisfies the clause and one
\* created at 2024-02-01T00:00:01 does not.
C21_DateRangeInclusive ==
    pc = "built" =>
        IF request.startDate = <<>> /\ request.endDate = <<>>
        THEN RangeClauses = <<>>
        ELSE /\ Len(RangeClauses) = 1
             /\ RangeClauses[1].field = "created_at"
             /\ LET bounds == RangeClauses[1].value
                IN  /\ DOMAIN bounds =
                           (IF request.startDate # <<>> THEN {"gte"} ELSE {})
                           \cup (IF request.endDate # <<>> THEN {"lte"} ELSE {})
                    /\ (request.startDate # <<>> =>
                           bounds["gte"] = request.startDate \o StartOfDaySuffix)
                    /\ (request.endDate # <<>> =>
                           bounds["lte"] = request.endDate \o EndOfDaySuffix)
                    /\ ((request.startDate = D_2024_01_01
                            /\ request.endDate = D_2024_01_31) =>
                           /\ SatisfiesRange(LateOnLastDay, bounds)
                           /\ ~SatisfiesRange(JustAfterLastDay, bounds))

\* The request for 2024-01-01 to 2024-01-31 has been turned into a query.
C21_Witness ==
    /\ pc = "built"
    /\ request.startDate = D_2024_01_01 /\ request.endDate = D_2024_01_31
    /\ Len(RangeClauses) = 1
    /\ SatisfiesRange(LateOnLastDay, RangeClauses[1].value)

\* C22 (as claimed): the request body asks for from = (page - 1) x limit and
\* size = limit, and the page and the limit the handler passed satisfy
\* page >= 1 and 1 <= limit <= 100.
C22_OffsetAndSize ==
    pc = "built" =>
        /\ coreCalls[1].page >= 1
        /\ coreCalls[1].limit \in 1..100
        /\ searchBody.from = (coreCalls[1].page - 1) * coreCalls[1].limit
        /\ searchBody.size = coreCalls[1].limit

\* C25 (as claimed): when the free-text term is empty or only whitespace the
\* request body has no should clause and no minimum_should_match.
C25_PureFilterQuery ==
    (pc = "built" /\ TrimSpace(request.q) = <<>>) =>
        /\ searchBody.should = <<>>
        /\ searchBody.minimumShouldMatch = 0

-----------------------------------------------------------------------------
(* A further property of the selector (checked under SpecSelect) *)

\* The attached messages are messages of the list at pairwise distinct
\* positions.
AttachedAtDistinctPositions ==
    \E f \in [1..Len(matchedMessages) -> 1..Len(messages)] :
        /\ \A k, l \in 1..Len(matchedMessages) : k # l => f[k] # f[l]
        /\ \A k \in 1..Len(matchedMessages) : matchedMessages[k] = messages[f[k]]

\* C27 (as claimed): for a conversation with n messages the selector attaches
\* exactly min(3, n) messages, at pairwise distinct positions of the message
\* list, also when several messages carry the same identity and whatever the
\* keyword matches.
C27_AttachesMinThreeDistinct ==
    pc = "selected" =>
        /\ Len(matchedMessages) = Min({3, Len(messages)})
        /\ AttachedAtDistinctPositions

-----------------------------------------------------------------------------
(* Property of the user service (checked under SpecUser) *)

\* What the repository returned to the service.
Repository == GetByID(userTable, userFailure, requestedID)

\* C24: GetUserByID returns the repository's user and no error when the
\* repository found one, a nil user and ErrUserNotFound when the repository
\* returned nil without an error, and a nil user and the repository's error
\* when the repository failed.
C24_GetUserByID ==
    pc = "got" =>
        /\ (Repository.err = "" /\ Repository.user # <<>> =>
               userResult = [user |-> Repository.user, err |-> ""])
        /\ (Repository.err = "" /\ Repository.user = <<>> =>
               userResult = [user |-> <<>>, err |-> "ErrUserNotFound"])
        /\ (Repository.err # "" =>
               userResult = [user |-> <<>>, err |-> Repository.err])

\* The user asked for has no row and the query did not fail.
C24_Witness ==
    /\ pc = "got" /\ userFailure = "" /\ requestedID \notin userTable /\ userTable # {}
    /\ userResult.err = "ErrUserNotFound"

-----------------------------------------------------------------------------
(* Properties of the conversation service (checked under SpecConversation *)
(* and SpecConversationFair)                                               *)

\* C28: after UpdateConversationTags returned success while the index was
\* reachable, the tags of the conversation's document in the index are the
\* tags of its row in the relational store.
C28_IndexHasNewTags ==
    /\ lastCall.op = "UpdateConversationTags" /\ lastCall.err = ""
    /\ lastCall.reachable
    /\ lastCall.id \in DOMAIN indexDocuments
    => indexDocuments[lastCall.id].tags = conversationRows[lastCall.id].tags

\* DeleteConversation returned success: the row is gone, whatever became of
\* the index delete.
DeleteRemovedRow ==
    lastCall.op = "DeleteConversation" /\ lastCall.err = ""
        => lastCall.id \notin DOMAIN conversationRows

\* C29: DeleteConversation removes the row and returns success even when
\* the index delete fails, and the document of a conversation that has no
\* row is eventually absent from the index.
C29_DeleteEventuallyConsistent ==
    /\ []DeleteRemovedRow
    /\ \A c \in ConversationIDs :
          (c \notin DOMAIN conversationRows) ~> (c \notin DOMAIN indexDocuments)

-----------------------------------------------------------------------------
(* Property of the tag service (checked under SpecTags) *)

NoTwoTagsOfOneName ==
    \A i, j \in DOMAIN tagRows : tagRows[i] = tagRows[j] => i = j

\* C30: no two live tags have the same name, whatever the interleaving of
\* CreateTag, UpdateTag and CreateOrGetTags; CreateTag for a name that
\* exists returns the existing tag and creates none; UpdateTag to a name
\* another tag holds fails with ErrTagNameExists and changes nothing.
C30_TagNamesUnique ==
    /\ NoTwoTagsOfOneName
    /\ \A r \in TagRequests :
          LET call == tagCalls[r]
          IN  call.at = "returned" /\ call.found # {} =>
                  /\ call.op = "CreateTag" =>
                         call.result = call.found /\ ~call.wrote
                  /\ call.op = "UpdateTag" /\ call.found # {call.id} =>
                         call.err = "ErrTagNameExists" /\ ~call.wrote

-----------------------------------------------------------------------------
(* Property of concurrent searches (checked under SpecConcurrent) *)

\* C23: two searches interleaved on one repository each return the
\* documents, matched messages, matched fields and total they return when
\* run alone, and neither reads a value the other wrote.
C23_NoInterference ==
    \A g \in Goroutines :
        /\ ~searches[g].foreign
        /\ searches[g].at = "returned" =>
               searches[g].result =
                   searchAlone(searches[g].query, searches[g].outcome,
                               searches[g].response)

\* Both searches returned, with different documents, and each took a step
\* while the other was under way.
C23_Witness ==
    /\ \A g \in Goroutines :
          /\ searches[g].at = "returned" /\ searches[g].overlapped
          /\ searches[g].result.docs # <<>>
    /\ searches[1].result # searches[2].result

====
